---- MODULE Spec2Model ----
(***************************************************************************)
(* Attendance state and pending-change reconciliation of the school        *)
(* attendance front end (src/App.tsx): the App component's state, its      *)
(* handlers and the statistics of the student detail modal.                *)
(*                                                                         *)
(* JavaScript values are modelled as follows.  A string-keyed object is a  *)
(* function whose DOMAIN is the set of keys present.  An array is a        *)
(* sequence; lesson index i (zero-based in the code) is position i + 1.    *)
(* A date key "YYYY-MM-DD" is the day number of that calendar date.        *)
(* The empty string stands for both '' and undefined, the falsy values a   *)
(* status, subject or topic position can hold.                             *)
(***************************************************************************)
EXTENDS Integers, Sequences, FiniteSets, TLC

VARIABLES
    loading,            \* useState(true), line 24
    isSettingsOpen,     \* line 25
    isSaving,           \* line 27
    classes,            \* line 31: sequence of [id, name]
    allStudents,        \* line 32: sequence of [id, name, classId, status]
    attendance,         \* line 33: studentId -> (date -> sequence of statuses)
    bimesters,          \* line 34: sequence of [id, start, end]
    dailyLessonConfig,  \* line 37: date -> sequence of lesson indices
    lessonSubjects,     \* line 39: date -> (lessonIndex -> subject)
    lessonTopics,       \* line 41: date -> (lessonIndex -> topic)
    registeredSubjects, \* line 44: sequence of subject names
    holidays,           \* line 45: sequence of holidays
    pendingChanges,     \* line 48: sequence of PendingChange
    viewMode,           \* line 51
    selectedClassId,    \* line 52
    classToDelete,      \* line 60: class id, "" for null
    statusFilter,       \* line 67
    hasApiUrl,          \* what getApiUrl() returns, line 81
    loads,              \* loadData calls awaiting api.getData(), line 89
    flush,              \* the handleSaveChanges call awaiting Promise.all, line 303
    configSaves,        \* handler calls awaiting api.saveConfig, lines 198-200,
                        \* 208 and 213
    rejected,           \* the handlers whose promise rejected to their caller
    deletes,            \* executeDeleteClass calls awaiting api.deleteClass, line 450
    studentDeletes,     \* handleDeleteStudent calls awaiting api.deleteStudent,
                        \* line 349
    rawLoaded,          \* data.config of the last api.getData() that resolved
    tz,                 \* local timezone offset of the browser, hours east of UTC
    selectedStudent,    \* line 57: id of the student of the detail modal, "" for null
    stats,              \* bimesterStats of the detail modal, as last rendered (line 987)
    annual,             \* annualStats and annualPercentage of the modal (lines 1017-1026)
    aiReport,           \* line 950: the student the modal's report text is about,
                        \* "" for the empty text
    reportLoading,      \* line 951: the modal's loading
    reports,            \* handleGenerateReport calls awaiting generateStudentReport,
                        \* line 1038
    lastOp,             \* the handler that ran in the last step, with its arguments
    nEdits              \* attendance edits made so far

loadVars == <<loading, isSettingsOpen, hasApiUrl, loads, rawLoaded>>
classVars == <<classes, allStudents>>
configVars == <<dailyLessonConfig, lessonSubjects, lessonTopics>>
viewVars == <<viewMode, selectedClassId, statusFilter>>
saveVars == <<isSaving, flush>>
schoolVars == <<registeredSubjects, holidays, configSaves, rejected>>
deleteVars == <<classToDelete, deletes, studentDeletes>>
reportVars == <<aiReport, reportLoading, reports>>
detailVars == <<selectedStudent, stats, annual, reportVars>>

vars == <<loadVars, classVars, configVars, viewVars, saveVars, schoolVars, deleteVars,
          detailVars, attendance, bimesters, pendingChanges, tz, lastOp, nEdits>>

----------------------------------------------------------------------------
(* Bounds of the model *)

MaxEdits == 2       \* attendance edits (toggles and bulk updates) in one run
MaxCalls == 1       \* class deletions or loads awaiting the gateway at once
MaxCount == 3       \* largest legacy lesson count in a loaded configuration
MaxTotal == 12      \* largest number of recorded slots the statistics add up
MaxSaves == 2       \* handler calls awaiting api.saveConfig at once
MaxDeletes == 2     \* student deletions awaiting the gateway at once

----------------------------------------------------------------------------
(* Enumerations of ./types *)

UNDEFINED == "UNDEFINED"
PRESENT == "PRESENT"
ABSENT == "ABSENT"
EXCUSED == "EXCUSED"
AttendanceStatus == {UNDEFINED, PRESENT, ABSENT, EXCUSED}

ACTIVE == "ACTIVE"
INACTIVE == "INACTIVE"
EnrollmentStatus == {ACTIVE, INACTIVE}

----------------------------------------------------------------------------
(* JavaScript helpers *)

EmptyMap == [x \in {} |-> ""]

Put(m, k, v) == [x \in (DOMAIN m) \cup {k} |-> IF x = k THEN v ELSE m[x]]

Without(m, ks) == [x \in (DOMAIN m) \ ks |-> m[x]]

Range(seq) == {seq[k] : k \in DOMAIN seq}

MaxOf(S) == CHOOSE m \in S : \A x \in S : x <= m

\* a || b on strings: the falsy string is ''.
OrElse(a, b) == IF a = "" THEN b ELSE a

\* arr[i] of a zero-based array: undefined (here "") outside the array.
At(arr, i) == IF i + 1 \in DOMAIN arr THEN arr[i + 1] ELSE ""

\* Array(n).fill(v)
Fill(n, v) == [k \in 1..n |-> v]

\* Stable sort of a sequence of records by their name field.  A name is
\* modelled by its rank in the collation order localeCompare uses.
RECURSIVE SortByName(_)
SortByName(seq) ==
    IF seq = <<>> THEN <<>>
    ELSE LET sorted == SortByName(SubSeq(seq, 1, Len(seq) - 1))
             x == seq[Len(seq)]
             p == Cardinality({k \in DOMAIN sorted : sorted[k].name <= x.name})
         IN  SubSeq(sorted, 1, p) \o <<x>> \o SubSeq(sorted, p + 1, Len(sorted))

----------------------------------------------------------------------------
(* Derived data *)

sortClasses(list) == SortByName(list)

\* lines 156-171: the students the grid shows.
classStudents(cls, sel, studs, filter) ==
    IF ~(\E k \in DOMAIN cls : cls[k].id = sel) THEN <<>>
    ELSE LET inClass(s) == s.classId = sel
             passes(s) == filter = "ALL" \/ s.status = filter
         IN  SortByName(SelectSeq(SelectSeq(studs, inClass), passes))

\* The value the grid shows for a cell: line 278.
CellOf(att, studentId, date, lessonIndex) ==
    IF studentId \in DOMAIN att /\ date \in DOMAIN att[studentId]
    THEN OrElse(At(att[studentId][date], lessonIndex), UNDEFINED)
    ELSE UNDEFINED

----------------------------------------------------------------------------
(* handleToggleStatus, lines 216-270 *)

\* lines 218-229: the day's statuses as the handler sees them.
currentDailyStatuses(att, config, studentId, date, lessonIndex) ==
    LET activeLessons == IF date \in DOMAIN config THEN config[date] ELSE <<0>>
        maxIndex == MaxOf(Range(activeLessons) \cup {lessonIndex})
        studentRecord == IF studentId \in DOMAIN att THEN att[studentId] ELSE EmptyMap
        copy == IF date \in DOMAIN studentRecord
                THEN studentRecord[date]
                ELSE Fill(maxIndex + 1, UNDEFINED)
    IN  IF Len(copy) <= lessonIndex
        THEN copy \o Fill(lessonIndex + 1 - Len(copy), UNDEFINED)
        ELSE copy

\* The cycle with the step from ABSENT to EXCUSED left out.
cycleStatus_skip(cell) ==
    LET currentStatus == OrElse(cell, UNDEFINED)
    IN  IF currentStatus = UNDEFINED THEN PRESENT
        ELSE IF currentStatus = PRESENT THEN ABSENT
        ELSE UNDEFINED

\* lines 236-240: the manual cycle.
cycleStatus(cell) ==
    LET currentStatus == OrElse(cell, UNDEFINED)
    IN  IF currentStatus = UNDEFINED THEN PRESENT
        ELSE IF currentStatus = PRESENT THEN ABSENT
        ELSE IF currentStatus = ABSENT THEN EXCUSED
        ELSE UNDEFINED

\* The forced status ignored.
nextStatusOf_alwaysCycle(cell, forcedStatus) == cycleStatus(cell)

\* lines 231-241
nextStatusOf(cell, forcedStatus) ==
    IF forcedStatus # "" THEN forcedStatus ELSE cycleStatus(cell)

\* The handler without its early return.
isSameStatus_never(cell, nextStatus) == FALSE

\* line 244: the early return.
isSameStatus(cell, nextStatus) == cell = nextStatus

\* The subject or topic of the date's first lesson, whatever the lesson.
metaOf_firstLesson(map, date, lessonIndex) ==
    IF date \in DOMAIN map /\ 0 \in DOMAIN map[date]
    THEN map[date][0]
    ELSE ""

\* lines 259-260
metaOf(map, date, lessonIndex) ==
    IF date \in DOMAIN map /\ lessonIndex \in DOMAIN map[date]
    THEN OrElse(map[date][lessonIndex], "")
    ELSE ""

\* The queue replaced by the change instead of extended with it.
queueChange_latestOnly(queue, change) == <<change>>

\* The queue as an append-only log.
queueChange_append(prev, change) == Append(prev, change)

\* lines 263-269: the updater given to setPendingChanges.
queueChange(prev, change) ==
    LET other(c) == ~(c.studentId = change.studentId /\ c.date = change.date
                      /\ c.lessonIndex = change.lessonIndex)
    IN  Append(SelectSeq(prev, other), change)

\* lines 250-256: the updater given to setAttendance.
storeDay(prev, studentId, date, updatedDailyStatuses) ==
    LET prevRecord == IF studentId \in DOMAIN prev THEN prev[studentId] ELSE EmptyMap
    IN  Put(prev, studentId, Put(prevRecord, date, updatedDailyStatuses))

\* The whole handler.  snap holds the state the handler's closure reads
\* (attendance, dailyLessonConfig, lessonSubjects, lessonTopics of the render
\* that created it); acc holds the state the queued updaters are applied to.
handleToggleStatus(snap, acc, studentId, date, lessonIndex, forcedStatus) ==
    LET current == currentDailyStatuses(snap.attendance, snap.dailyLessonConfig,
                                        studentId, date, lessonIndex)
        nextStatus == nextStatusOf(At(current, lessonIndex), forcedStatus)
        updatedDailyStatuses == [current EXCEPT ![lessonIndex + 1] = nextStatus]
        change == [studentId |-> studentId, date |-> date,
                   lessonIndex |-> lessonIndex, status |-> nextStatus,
                   subject |-> metaOf(snap.lessonSubjects, date, lessonIndex),
                   topic |-> metaOf(snap.lessonTopics, date, lessonIndex)]
    IN  IF isSameStatus(At(current, lessonIndex), nextStatus) THEN acc
        ELSE [attendance |-> storeDay(acc.attendance, studentId, date,
                                      updatedDailyStatuses),
              pendingChanges |-> queueChange(acc.pendingChanges, change)]

----------------------------------------------------------------------------
(* handleBulkStatusUpdate, lines 272-285 *)

\* The bulk update without the enrollment check of line 275.
isBulkTarget_anyEnrollment(att, student, date, lessonIndex) ==
    CellOf(att, student.id, date, lessonIndex) = UNDEFINED

\* lines 275-281: the students of the visible list the update applies to.
isBulkTarget(att, student, date, lessonIndex) ==
    /\ student.status = ACTIVE
    /\ CellOf(att, student.id, date, lessonIndex) = UNDEFINED

\* classStudents.forEach(...): every call reads the same closure.
RECURSIVE bulkForEach(_, _, _, _, _, _)
bulkForEach(snap, acc, students, date, lessonIndex, status) ==
    IF students = <<>> THEN acc
    ELSE LET student == Head(students)
             after == IF isBulkTarget(snap.attendance, student, date, lessonIndex)
                      THEN handleToggleStatus(snap, acc, student.id, date,
                                              lessonIndex, status)
                      ELSE acc
         IN  bulkForEach(snap, after, Tail(students), date, lessonIndex, status)

----------------------------------------------------------------------------
(* What the Persistence Gateway returns from api.getData() *)

Num(n) == [t |-> "number", n |-> n, a |-> <<>>]
Arr(a) == [t |-> "array", n |-> 0, a |-> a]
Bad == [t |-> "string", n |-> 0, a |-> <<>>]

ServerClasses == << [id |-> "c2", name |-> 2], [id |-> "c1", name |-> 1] >>

ServerStudents ==
    << [id |-> "s1", name |-> 2, classId |-> "c1", status |-> ACTIVE],
       [id |-> "s2", name |-> 1, classId |-> "c1", status |-> ACTIVE],
       [id |-> "s3", name |-> 3, classId |-> "c1", status |-> INACTIVE],
       [id |-> "s4", name |-> 1, classId |-> "c2", status |-> ACTIVE] >>

ServerAttendance ==
    ("s1" :> ((1 :> <<EXCUSED>>) @@ (2 :> <<PRESENT, ABSENT>>)))
    @@ ("s4" :> (1 :> <<PRESENT, ABSENT>>))

ServerSubjects == (1 :> (0 :> "Mat"))
ServerTopics == (1 :> (0 :> "Fractions"))

\* The dailyLessonCounts values the main specification loads.
CoreRawConfigs == { (1 :> Num(2)) }

\* BIMESTERS of ./constants: the default grading periods.
BIMESTERS ==
    << [id |-> 1, start |-> 1, end |-> 2], [id |-> 2, start |-> 3, end |-> 4] >>

Dates == {1}             \* the dates of the grid that are edited
LessonIdx == {0, 1}      \* the lesson slots the grid shows for a date

----------------------------------------------------------------------------
(* loadData, lines 80-143 *)

\* The legacy count expanded to 1..n instead of 0..n-1.
normalizeConfig_oneBased(rawConfig) ==
    LET kept == {date \in DOMAIN rawConfig : rawConfig[date].t \in {"number", "array"}}
    IN  [date \in kept |->
            IF rawConfig[date].t = "number"
            THEN [k \in 1..rawConfig[date].n |-> k]
            ELSE rawConfig[date].a]

\* lines 108-119: legacy count or index array to index array.
normalizeConfig(rawConfig) ==
    LET kept == {date \in DOMAIN rawConfig : rawConfig[date].t \in {"number", "array"}}
    IN  [date \in kept |->
            IF rawConfig[date].t = "number"
            THEN [k \in 1..rawConfig[date].n |-> k - 1]
            ELSE rawConfig[date].a]

NoOp == [op |-> "init", n |-> 0, alert |-> ""]

Op(name) == [NoOp EXCEPT !.op = name]

\* annualStats of a modal that was never rendered: the reduce of line 1017
\* over no bucket.
NoAnnual ==
    [present |-> 0, absent |-> 0, excused |-> 0, total |-> 0,
     percentage |-> [m |-> <<>>, e |-> 0]]

IdleFlush == [pc |-> "idle", calls |-> <<>>, ok |-> 0]

\* The state after the first render: the useState initial values, lines 24-70.
Constructed ==
    /\ loading = TRUE
    /\ isSettingsOpen = FALSE
    /\ isSaving = FALSE
    /\ classes = <<>>
    /\ allStudents = <<>>
    /\ attendance = EmptyMap
    /\ bimesters = BIMESTERS
    /\ dailyLessonConfig = EmptyMap
    /\ lessonSubjects = EmptyMap
    /\ lessonTopics = EmptyMap
    /\ pendingChanges = <<>>
    /\ viewMode = "CLASS"
    /\ selectedClassId = ""
    /\ classToDelete = ""
    /\ statusFilter = "ALL"
    /\ selectedStudent = ""
    /\ loads = <<>>
    /\ flush = IdleFlush
    /\ deletes = <<>>
    /\ studentDeletes = <<>>
    /\ registeredSubjects = <<>>
    /\ holidays = <<>>
    /\ configSaves = <<>>
    /\ rejected = {}
    /\ rawLoaded = EmptyMap
    /\ stats = <<>>
    /\ annual = NoAnnual
    /\ aiReport = ""
    /\ reportLoading = FALSE
    /\ reports = <<>>
    /\ lastOp = NoOp
    /\ nEdits = 0

Init ==
    /\ Constructed
    /\ hasApiUrl \in BOOLEAN
    /\ tz = 0

\* loadData without the test of line 81.
loadDataStart_alwaysCalls(sel, url) ==
    /\ loading' = TRUE
    /\ loads' = Append(loads, [sel |-> sel])
    /\ isSettingsOpen' = isSettingsOpen

\* lines 81-87: the synchronous part of loadData; sel is the selectedClassId
\* of the closure that calls it, url what getApiUrl() returns.
loadDataStart(sel, url) ==
    IF ~url
    THEN /\ isSettingsOpen' = TRUE
         /\ loading' = FALSE
         /\ loads' = loads
    ELSE /\ loading' = TRUE
         /\ loads' = Append(loads, [sel |-> sel])
         /\ isSettingsOpen' = isSettingsOpen

\* lines 145-147: the effect run once after the first render.
Mount ==
    /\ lastOp.op = "init"
    /\ loadDataStart(selectedClassId, hasApiUrl)
    /\ lastOp' = Op("mount")
    /\ UNCHANGED <<hasApiUrl, rawLoaded, classVars, configVars, viewVars, saveVars, schoolVars,
                   deleteVars, detailVars, attendance, bimesters, pendingChanges,
                   tz, nEdits>>

RemoveAt(seq, k) == SubSeq(seq, 1, k - 1) \o SubSeq(seq, k + 1, Len(seq))

\* lines 89-134 and 140-142: api.getData() resolved with the server's data
\* and dailyLessonCounts = raw.
LoadOk(k, raw) ==
    /\ k \in DOMAIN loads
    /\ classes' = sortClasses(ServerClasses)
    /\ allStudents' = ServerStudents
    /\ attendance' = ServerAttendance
    /\ dailyLessonConfig' = normalizeConfig(raw)
    /\ lessonSubjects' = ServerSubjects
    /\ lessonTopics' = ServerTopics
    /\ selectedClassId' = IF loads[k].sel = "" /\ Len(ServerClasses) > 0
                          THEN sortClasses(ServerClasses)[1].id
                          ELSE selectedClassId
    /\ loading' = FALSE
    /\ loads' = RemoveAt(loads, k)
    /\ rawLoaded' = raw
    /\ lastOp' = Op("loadOk")
    /\ UNCHANGED <<isSettingsOpen, hasApiUrl, viewMode, statusFilter, saveVars, schoolVars,
                   deleteVars, detailVars, bimesters, pendingChanges, tz, nEdits>>

\* lines 136-142: api.getData() rejected.
LoadFail(k) ==
    /\ k \in DOMAIN loads
    /\ isSettingsOpen' = TRUE
    /\ loading' = FALSE
    /\ loads' = RemoveAt(loads, k)
    /\ lastOp' = [Op("loadFail") EXCEPT !.alert = "load"]
    /\ UNCHANGED <<hasApiUrl, rawLoaded, classVars, configVars, viewVars, saveVars, schoolVars,
                   deleteVars, detailVars, attendance, bimesters, pendingChanges,
                   tz, nEdits>>

----------------------------------------------------------------------------
(* Navigation, lines 530, 590 and 739 *)

\* The main view is rendered only when loading is false (lines 470-477), and
\* the class-deletion dialog (lines 884-914) covers it while classToDelete is set.
Rendered == ~loading /\ classToDelete = ""

HasClass(id) == \E k \in DOMAIN classes : classes[k].id = id

SelectClass(c) ==
    /\ Rendered
    /\ HasClass(c)
    /\ selectedClassId' = c
    /\ viewMode' = "CLASS"
    /\ lastOp' = Op("nav")
    /\ UNCHANGED <<loadVars, classVars, configVars, statusFilter, saveVars, schoolVars,
                   deleteVars, detailVars, attendance, bimesters, pendingChanges,
                   tz, nEdits>>

ShowDashboard ==
    /\ Rendered
    /\ viewMode' = "DASHBOARD"
    /\ lastOp' = Op("nav")
    /\ UNCHANGED <<loadVars, classVars, configVars, selectedClassId, statusFilter,
                   saveVars, schoolVars, deleteVars, detailVars, attendance, bimesters,
                   pendingChanges, tz, nEdits>>

SetStatusFilter(f) ==
    /\ Rendered
    /\ viewMode = "CLASS"
    /\ HasClass(selectedClassId)
    /\ statusFilter' = f
    /\ lastOp' = Op("nav")
    /\ UNCHANGED <<loadVars, classVars, configVars, viewMode, selectedClassId,
                   saveVars, schoolVars, deleteVars, detailVars, attendance, bimesters,
                   pendingChanges, tz, nEdits>>

----------------------------------------------------------------------------
(* Attendance and lesson-configuration edits *)

Snapshot == [attendance |-> attendance, dailyLessonConfig |-> dailyLessonConfig,
             lessonSubjects |-> lessonSubjects, lessonTopics |-> lessonTopics]

Current == [attendance |-> attendance, pendingChanges |-> pendingChanges]

Visible == classStudents(classes, selectedClassId, allStudents, statusFilter)

VisibleIds == {Visible[k].id : k \in DOMAIN Visible}

\* The grid is part of the class view (lines 754-787).
GridShown == Rendered /\ viewMode = "CLASS"

\* line 781: a click on a cell of the grid.
ToggleStatus(studentId, date, lessonIndex) ==
    /\ nEdits < MaxEdits
    /\ GridShown
    /\ studentId \in VisibleIds
    /\ LET after == handleToggleStatus(Snapshot, Current, studentId, date,
                                       lessonIndex, "")
       IN  /\ attendance' = after.attendance
           /\ pendingChanges' = after.pendingChanges
    /\ nEdits' = nEdits + 1
    /\ lastOp' = Op("toggle")
    /\ UNCHANGED <<loadVars, classVars, configVars, viewVars, saveVars, schoolVars, deleteVars,
                   detailVars, bimesters, tz>>

\* handleToggleStatus called with its fourth argument, as line 282 calls it.
ForcedToggle(studentId, date, lessonIndex, forcedStatus) ==
    /\ nEdits < MaxEdits
    /\ GridShown
    /\ studentId \in VisibleIds
    /\ LET after == handleToggleStatus(Snapshot, Current, studentId, date,
                                       lessonIndex, forcedStatus)
       IN  /\ attendance' = after.attendance
           /\ pendingChanges' = after.pendingChanges
    /\ nEdits' = nEdits + 1
    /\ lastOp' = [Op("forced") EXCEPT !.n =
                    IF CellOf(attendance, studentId, date, lessonIndex) = forcedStatus
                    THEN 1 ELSE 0]
    /\ UNCHANGED <<loadVars, classVars, configVars, viewVars, saveVars, schoolVars, deleteVars,
                   detailVars, bimesters, tz>>

\* Two calls of the handler of one render (line 781 twice before React
\* renders again): both read the closure of that render, and their updaters
\* are applied in the order of the calls.
ToggleTwice(first, second) ==
    /\ nEdits + 1 < MaxEdits
    /\ GridShown
    /\ first.studentId \in VisibleIds
    /\ second.studentId \in VisibleIds
    /\ LET one == handleToggleStatus(Snapshot, Current, first.studentId,
                                     first.date, first.lessonIndex, "")
           after == handleToggleStatus(Snapshot, one, second.studentId,
                                       second.date, second.lessonIndex, "")
       IN  /\ attendance' = after.attendance
           /\ pendingChanges' = after.pendingChanges
    /\ nEdits' = nEdits + 2
    /\ lastOp' = Op("toggleTwice")
    /\ UNCHANGED <<loadVars, classVars, configVars, viewVars, saveVars, schoolVars, deleteVars,
                   detailVars, bimesters, tz>>

\* line 782: the grid's bulk action on a lesson column.
BulkStatusUpdate(date, lessonIndex, status) ==
    /\ nEdits < MaxEdits
    /\ GridShown
    /\ LET after == bulkForEach(Snapshot, Current, Visible, date, lessonIndex, status)
       IN  /\ attendance' = after.attendance
           /\ pendingChanges' = after.pendingChanges
    /\ nEdits' = nEdits + 1
    /\ lastOp' = Op("bulk")
    /\ UNCHANGED <<loadVars, classVars, configVars, viewVars, saveVars, schoolVars, deleteVars,
                   detailVars, bimesters, tz>>

\* The lesson configurations the grid's editor submits (line 784).
ConfigEdits ==
    { [date |-> 1, activeIndices |-> <<0, 2>>,
       subjects |-> (0 :> "Geo"), topics |-> EmptyMap],
      [date |-> 1, activeIndices |-> <<1>>,
       subjects |-> (1 :> "Por"), topics |-> (1 :> "Verbs")] }

\* lines 197-200: the saves of one edit, in the order the handler awaits them.
lessonConfigSaves(newConfig, newSubjects, newTopics) ==
    << [key |-> "dailyLessonCounts", value |-> newConfig],
       [key |-> "lessonSubjects", value |-> newSubjects],
       [key |-> "lessonTopics", value |-> newTopics] >>

\* A handler call at an await of api.saveConfig: the save in flight and the
\* saves the handler issues after it.
ConfigCall(handler, saves) ==
    [handler |-> handler, key |-> Head(saves).key, value |-> Head(saves).value,
     later |-> Tail(saves)]

\* lines 187-198: the state updates of handleUpdateLessonConfig and the
\* first api.saveConfig call, up to its await.
handleUpdateLessonConfig(e) ==
    /\ GridShown
    /\ nEdits < MaxEdits
    /\ dailyLessonConfig' = Put(dailyLessonConfig, e.date, e.activeIndices)
    /\ lessonSubjects' = Put(lessonSubjects, e.date, e.subjects)
    /\ lessonTopics' = Put(lessonTopics, e.date, e.topics)
    /\ configSaves' = Append(configSaves,
                             ConfigCall("handleUpdateLessonConfig",
                                        lessonConfigSaves(dailyLessonConfig',
                                                          lessonSubjects',
                                                          lessonTopics')))
    /\ nEdits' = nEdits + 1
    /\ lastOp' = Op("config")
    /\ UNCHANGED <<loadVars, classVars, viewVars, saveVars, deleteVars, detailVars,
                   registeredSubjects, holidays, rejected, attendance, bimesters,
                   pendingChanges, tz>>

\* lines 206-209
handleSaveSchoolSubjects(subjects) ==
    /\ Rendered
    /\ Len(configSaves) < MaxSaves
    /\ registeredSubjects' = subjects
    /\ configSaves' = Append(configSaves,
                             ConfigCall("handleSaveSchoolSubjects",
                                        <<[key |-> "registeredSubjects",
                                           value |-> subjects]>>))
    /\ lastOp' = Op("schoolSubjects")
    /\ UNCHANGED <<loadVars, classVars, configVars, viewVars, saveVars, deleteVars,
                   detailVars, holidays, rejected, attendance, bimesters,
                   pendingChanges, tz, nEdits>>

\* lines 211-214
handleSaveHolidays(newHolidays) ==
    /\ Rendered
    /\ Len(configSaves) < MaxSaves
    /\ holidays' = newHolidays
    /\ configSaves' = Append(configSaves,
                             ConfigCall("handleSaveHolidays",
                                        <<[key |-> "holidays",
                                           value |-> newHolidays]>>))
    /\ lastOp' = Op("holidays")
    /\ UNCHANGED <<loadVars, classVars, configVars, viewVars, saveVars, deleteVars,
                   detailVars, registeredSubjects, rejected, attendance, bimesters,
                   pendingChanges, tz, nEdits>>

\* The awaited api.saveConfig of call k resolved: the handler issues its next
\* save (lines 199 and 200) or returns.
SaveConfigOk(k) ==
    /\ k \in DOMAIN configSaves
    /\ configSaves' = IF configSaves[k].later = <<>>
                      THEN SubSeq(configSaves, 1, k - 1)
                              \o SubSeq(configSaves, k + 1, Len(configSaves))
                      ELSE [configSaves EXCEPT
                               ![k] = ConfigCall(configSaves[k].handler,
                                                 configSaves[k].later)]
    /\ lastOp' = Op("saveConfigOk")
    /\ UNCHANGED <<loadVars, classVars, configVars, viewVars, saveVars, deleteVars,
                   detailVars, registeredSubjects, holidays, rejected, attendance,
                   bimesters, pendingChanges, tz, nEdits>>

\* lines 197-203 against 206-214: only handleUpdateLessonConfig awaits its
\* saves inside a try block.
catchesSaveFailure(handler) == handler = "handleUpdateLessonConfig"

\* The awaited api.saveConfig of call k rejected: the catch of lines 201-203
\* logs it and the handler returns without its later saves; a handler with
\* no catch rejects to its caller.
SaveConfigFail(k) ==
    /\ k \in DOMAIN configSaves
    /\ configSaves' = SubSeq(configSaves, 1, k - 1)
                         \o SubSeq(configSaves, k + 1, Len(configSaves))
    /\ rejected' = IF catchesSaveFailure(configSaves[k].handler)
                   THEN rejected
                   ELSE rejected \cup {configSaves[k].handler}
    /\ lastOp' = [Op("saveConfigFail") EXCEPT !.n = Len(configSaves[k].later)]
    /\ UNCHANGED <<loadVars, classVars, configVars, viewVars, saveVars, deleteVars,
                   detailVars, registeredSubjects, holidays, attendance, bimesters,
                   pendingChanges, tz, nEdits>>

----------------------------------------------------------------------------
(* handleSaveChanges, lines 287-311 *)

\* The writes issued one at a time: only the first is initiated before the
\* await.
saveCalls_firstOnly(queue) == SubSeq(queue, 1, 1)

\* lines 292-301: one api.saveAttendance call per queued change.
saveCalls(queue) ==
    [k \in DOMAIN queue |->
        [studentId |-> queue[k].studentId, date |-> queue[k].date,
         lessonIndex |-> queue[k].lessonIndex, status |-> queue[k].status,
         subject |-> queue[k].subject, topic |-> queue[k].topic]]

\* The handler with the test of line 288 always false.
isEmptyQueue_never(queue) == FALSE

\* line 288
isEmptyQueue(queue) == Len(queue) = 0

\* What lastOp tells of a save action: 0, or, where the step before it was
\* a failed flush, 1 + the number of writes of that flush that had resolved.
retryOf(last) == IF last.op = "flushFail" THEN 1 + last.n ELSE 0

\* lines 287-303 up to the await: the handler called on the state of the
\* render, while no other call of it is awaiting.
handleSaveChanges ==
    /\ Rendered
    /\ ~isSaving
    /\ IF isEmptyQueue(pendingChanges)
       THEN /\ lastOp' = Op("flushEmpty")
            /\ UNCHANGED <<isSaving, flush>>
       ELSE /\ isSaving' = TRUE
            /\ flush' = [pc |-> "awaiting", calls |-> saveCalls(pendingChanges),
                         ok |-> 0]
            /\ lastOp' = [Op("flushStart") EXCEPT !.n = retryOf(lastOp)]
    /\ UNCHANGED <<loadVars, classVars, configVars, viewVars, schoolVars, deleteVars,
                   detailVars, attendance, bimesters, pendingChanges, tz, nEdits>>

\* The save button: it is shown while the queue is not empty in the class
\* view and is disabled while isSaving (lines 816-820).
FlushStart ==
    /\ GridShown
    /\ Len(pendingChanges) # 0
    /\ handleSaveChanges

\* The handler without line 304.
queueAfterSuccess_kept(queue) == queue

\* line 304: what the handler does to the queue once Promise.all resolved.
queueAfterSuccess(queue) == <<>>

\* One more api.saveAttendance call resolved.  Promise.all reacts only to the
\* number of calls resolved, so flush.ok counts them.  When it was the last
\* one outstanding Promise.all resolves and the handler runs lines 304, 309.
WriteOk ==
    /\ flush.pc = "awaiting"
    /\ IF flush.ok + 1 = Len(flush.calls)
       THEN /\ pendingChanges' = queueAfterSuccess(pendingChanges)
            /\ isSaving' = FALSE
            /\ flush' = IdleFlush
            /\ lastOp' = Op("flushOk")
       ELSE /\ flush' = [flush EXCEPT !.ok = flush.ok + 1]
            /\ lastOp' = Op("writeOk")
            /\ UNCHANGED <<pendingChanges, isSaving>>
    /\ UNCHANGED <<loadVars, classVars, configVars, viewVars, schoolVars, deleteVars,
                   detailVars, attendance, bimesters, tz, nEdits>>

\* The queue cleared in the finally block instead of after the await.
queueAfterFailure_cleared(queue) == <<>>

\* line 305: what the handler does to the queue once Promise.all rejected.
queueAfterFailure(queue) == queue

\* lines 306-307: console.error and alert.
failureNotice == "save"

\* The catch block rolling the written students' records back.
storeAfterFailure_rolledBack(att, calls) ==
    Without(att, {calls[k].studentId : k \in DOMAIN calls})

\* lines 305-308: what the catch block does to the attendance store.
storeAfterFailure(att, calls) == att

\* The catch block issuing the writes of the failed flush again.
flushAfterFailure_retry(f) == [f EXCEPT !.ok = 0]

\* lines 305-310: the catch and finally blocks issue no call.
flushAfterFailure(f) == IdleFlush

\* One of the outstanding api.saveAttendance calls rejected: Promise.all
\* rejects at once, whatever the state of the other calls, and the handler
\* runs lines 305-309.
WriteFail ==
    /\ flush.pc = "awaiting"
    /\ pendingChanges' = queueAfterFailure(pendingChanges)
    /\ attendance' = storeAfterFailure(attendance, flush.calls)
    /\ isSaving' = FALSE
    /\ flush' = flushAfterFailure(flush)
    /\ lastOp' = [Op("flushFail") EXCEPT !.n = flush.ok, !.alert = failureNotice]
    /\ UNCHANGED <<loadVars, classVars, configVars, viewVars, schoolVars, deleteVars,
                   detailVars, bimesters, tz, nEdits>>

----------------------------------------------------------------------------
(* Class deletion, lines 416-457 *)

InFlight == Len(loads) + Len(deletes)

promptDeleteClass(c) ==
    /\ Rendered
    /\ HasClass(c)
    /\ classToDelete' = c
    /\ lastOp' = Op("promptDeleteClass")
    /\ UNCHANGED <<loadVars, classVars, configVars, viewVars, saveVars, schoolVars, deletes,
                   studentDeletes, detailVars, attendance, bimesters, pendingChanges, tz, nEdits>>

\* lines 425-426
studentIdsToRemove(studs, id) ==
    {studs[k].id : k \in {j \in DOMAIN studs : studs[j].classId = id}}

\* line 435
classesWithout(prev, id) == LET keep(c) == c.id # id IN SelectSeq(prev, keep)

\* line 436
studentsWithout(prev, id) == LET keep(s) == s.classId # id IN SelectSeq(prev, keep)

\* The deletion without lines 439-443.
attendanceWithout_kept(prev, ids) == prev

\* lines 439-443
attendanceWithout(prev, ids) == Without(prev, ids)

\* lines 420-450 up to the await.
executeDeleteClass ==
    /\ ~loading
    /\ classToDelete # ""
    /\ InFlight < MaxCalls
    /\ LET id == classToDelete
       IN  /\ selectedClassId' = IF selectedClassId = id THEN "" ELSE selectedClassId
           /\ viewMode' = IF selectedClassId = id THEN "DASHBOARD" ELSE viewMode
           /\ classes' = classesWithout(classes, id)
           /\ allStudents' = studentsWithout(allStudents, id)
           /\ attendance' = attendanceWithout(attendance,
                                              studentIdsToRemove(allStudents, id))
           /\ deletes' = Append(deletes, [id |-> id, sel |-> selectedClassId])
    /\ classToDelete' = ""
    /\ lastOp' = Op("executeDeleteClass")
    /\ UNCHANGED <<loadVars, configVars, statusFilter, saveVars, schoolVars, detailVars,
                   studentDeletes, bimesters, pendingChanges, tz, nEdits>>

\* api.deleteClass resolved.
DeleteClassOk(k) ==
    /\ k \in DOMAIN deletes
    /\ deletes' = RemoveAt(deletes, k)
    /\ lastOp' = Op("deleteClassOk")
    /\ UNCHANGED <<loadVars, classVars, configVars, viewVars, saveVars, schoolVars,
                   classToDelete, studentDeletes, detailVars, attendance, bimesters,
                   pendingChanges, tz, nEdits>>

\* The catch block without the loadData() of line 455.
DeleteClassFail_noReload(k) ==
    /\ k \in DOMAIN deletes
    /\ deletes' = RemoveAt(deletes, k)
    /\ lastOp' = [Op("deleteClassFail") EXCEPT !.alert = "deleteClass"]
    /\ UNCHANGED <<loadVars, classVars, configVars, viewVars, saveVars, schoolVars,
                   classToDelete, studentDeletes, detailVars, attendance,
                   bimesters, pendingChanges, tz, nEdits>>

\* lines 451-456: api.deleteClass rejected; loadData() of the handler's closure.
DeleteClassFail(k) ==
    /\ k \in DOMAIN deletes
    /\ deletes' = RemoveAt(deletes, k)
    /\ loadDataStart(deletes[k].sel, hasApiUrl)
    /\ lastOp' = [Op("deleteClassFail") EXCEPT !.alert = "deleteClass"]
    /\ UNCHANGED <<hasApiUrl, rawLoaded, classVars, configVars, viewVars, saveVars, schoolVars,
                   classToDelete, studentDeletes, detailVars, attendance, bimesters,
                   pendingChanges, tz, nEdits>>

----------------------------------------------------------------------------
(* Student deletion, lines 334-358 *)

\* line 556: the sidebar opens the student manager.
ShowStudents ==
    /\ Rendered
    /\ viewMode' = "STUDENTS"
    /\ lastOp' = Op("nav")
    /\ UNCHANGED <<loadVars, classVars, configVars, selectedClassId, statusFilter,
                   saveVars, schoolVars, deleteVars, detailVars, attendance,
                   bimesters, pendingChanges, tz, nEdits>>

\* line 340
studentsWithoutId(prev, id) == LET keep(s) == s.id # id IN SelectSeq(prev, keep)

\* lines 343-347
attendanceWithoutId(prev, id) == Without(prev, {id})

\* lines 334-349 up to the await: the snapshots of the render the handler
\* belongs to, and the optimistic removal.
handleDeleteStudent(id) ==
    /\ Rendered
    /\ viewMode = "STUDENTS"
    /\ \E k \in DOMAIN allStudents : allStudents[k].id = id
    /\ Len(studentDeletes) < MaxDeletes
    /\ allStudents' = studentsWithoutId(allStudents, id)
    /\ attendance' = attendanceWithoutId(attendance, id)
    /\ studentDeletes' = Append(studentDeletes,
                                [id |-> id, previousStudents |-> allStudents,
                                 previousAttendance |-> attendance])
    /\ lastOp' = Op("deleteStudent")
    /\ UNCHANGED <<loadVars, classes, configVars, viewVars, saveVars, schoolVars,
                   classToDelete, deletes, detailVars, bimesters, pendingChanges,
                   tz, nEdits>>

\* api.deleteStudent resolved: the handler returns.
DeleteStudentOk(k) ==
    /\ k \in DOMAIN studentDeletes
    /\ studentDeletes' = RemoveAt(studentDeletes, k)
    /\ lastOp' = Op("deleteStudentOk")
    /\ UNCHANGED <<loadVars, classVars, configVars, viewVars, saveVars, schoolVars,
                   classToDelete, deletes, detailVars, attendance, bimesters,
                   pendingChanges, tz, nEdits>>

\* lines 350-356: api.deleteStudent rejected; the rollback to the snapshots.
DeleteStudentFail(k) ==
    /\ k \in DOMAIN studentDeletes
    /\ allStudents' = studentDeletes[k].previousStudents
    /\ attendance' = studentDeletes[k].previousAttendance
    /\ studentDeletes' = RemoveAt(studentDeletes, k)
    /\ lastOp' = [Op("deleteStudentFail") EXCEPT !.alert = "deleteStudent"]
    /\ UNCHANGED <<loadVars, classes, configVars, viewVars, saveVars, schoolVars,
                   classToDelete, deletes, detailVars, bimesters, pendingChanges,
                   tz, nEdits>>

----------------------------------------------------------------------------
(* Settings, lines 481-485 *)

\* onSave={loadData}: the settings modal stored a gateway URL and reloads.
SettingsSave ==
    /\ Rendered
    /\ isSettingsOpen
    /\ Len(loads) < MaxCalls
    /\ hasApiUrl' = TRUE
    /\ loadDataStart(selectedClassId, TRUE)
    /\ lastOp' = Op("settingsSave")
    /\ UNCHANGED <<rawLoaded, classVars, configVars, viewVars, saveVars, schoolVars,
                   deleteVars, detailVars, attendance, bimesters, pendingChanges,
                   tz, nEdits>>

----------------------------------------------------------------------------
(* JavaScript numbers: the IEEE-754 binary64 quotient and product the        *)
(* statistics compute (lines 1009 and 1024-1026)                             *)

\* A non-negative double is 0 or m * 2^e with 2^52 <= m < 2^53.  m is kept as
\* its 53 bits, most significant first; DoubleZero has no bits.
DoubleZero == [m |-> <<>>, e |-> 0]

Zeros(n) == [i \in 1..n |-> 0]

\* The binary digits of a natural number, most significant first.
RECURSIVE natBits(_)
natBits(n) == IF n = 0 THEN <<>> ELSE Append(natBits(n \div 2), n % 2)

RECURSIVE stripLeadingZeros(_)
stripLeadingZeros(bits) ==
    IF bits = <<>> \/ Head(bits) = 1 THEN bits ELSE stripLeadingZeros(Tail(bits))

\* The w binary digits of a natural number below 2^w, most significant first.
natBitsW(n, w) == [i \in 1..w |-> (n \div 2^(w - i)) % 2]

\* The natural number with the given binary digits.
RECURSIVE bitsNat(_)
bitsNat(bits) ==
    IF bits = <<>> THEN 0
    ELSE 2 * bitsNat(SubSeq(bits, 1, Len(bits) - 1)) + bits[Len(bits)]

\* Long division: the first 8 * n digits after the binary point of r / t,
\* eight at a time, appended to acc, and the remainder left after them.
RECURSIVE quotientBits(_, _, _, _)
quotientBits(r, t, n, acc) ==
    IF n = 0 THEN [bits |-> acc, rem |-> r]
    ELSE quotientBits((256 * r) % t, t, n - 1, acc \o natBitsW((256 * r) \div t, 8))

\* Long multiplication: bits * k + carry for a small natural k, in front of
\* the digits acc, eight digits of bits at a time from the least significant.
RECURSIVE productBits(_, _, _, _)
productBits(bits, k, carry, acc) ==
    IF bits = <<>> THEN natBits(carry) \o acc
    ELSE LET w == IF Len(bits) < 8 THEN Len(bits) ELSE 8
             v == bitsNat(SubSeq(bits, Len(bits) - w + 1, Len(bits))) * k + carry
         IN  productBits(SubSeq(bits, 1, Len(bits) - w), k, v \div 2^w,
                         natBitsW(v % 2^w, w) \o acc)

\* bits + 1 for bits that are not all ones.
incrementBits(bits) ==
    LET k == CHOOSE i \in DOMAIN bits :
                 bits[i] = 0 /\ \A j \in DOMAIN bits : j > i => bits[j] = 1
    IN  [i \in DOMAIN bits |-> IF i < k THEN bits[i] ELSE IF i = k THEN 1 ELSE 0]

\* Round to nearest, ties to even: the double nearest to the number whose
\* integer part has the digits bits (a leading 1, at least 53 of them), times
\* 2^e; sticky says that the number has digits other than 0 below them.
roundToNearestEven(bits, sticky, e) ==
    LET m == SubSeq(bits, 1, 53)
        guard == IF Len(bits) > 53 THEN bits[54] ELSE 0
        below == sticky \/ \E i \in 55..Len(bits) : bits[i] = 1
        up == guard = 1 /\ (below \/ m[53] = 1)
        exp == e + Len(bits) - 53
    IN  IF ~up THEN [m |-> m, e |-> exp]
        ELSE IF \A i \in 1..53 : m[i] = 1
             THEN [m |-> <<1>> \o Zeros(52), e |-> exp + 1]
             ELSE [m |-> incrementBits(m), e |-> exp]

\* x / t in binary64 for naturals 0 <= x <= t, 0 < t < 1024.
divideDouble(x, t) ==
    IF x = 0 THEN DoubleZero
    ELSE IF x = t THEN [m |-> <<1>> \o Zeros(52), e |-> -52]
    ELSE LET q == quotientBits(x, t, 8, <<>>)
         IN  roundToNearestEven(stripLeadingZeros(q.bits), q.rem # 0, -64)

\* d * k in binary64 for a double d and a small natural k.
timesDouble(d, k) ==
    IF d = DoubleZero \/ k = 0 THEN DoubleZero
    ELSE roundToNearestEven(stripLeadingZeros(productBits(d.m, k, 0, <<>>)), FALSE, d.e)

----------------------------------------------------------------------------
(* StudentDetailModal: bimesterStats and annualStats, lines 987-1026 *)

\* new Date("YYYY-MM-DD"), lines 991-992: midnight UTC of the day, in hours.
dateOnlyInstant(day) == 24 * day

\* new Date(dateStr + 'T12:00:00'), line 996: noon local time of the day, in
\* hours UTC, for a timezone offset hours east of UTC.
localNoonInstant(day, offset) == 24 * day + 12 - offset

\* line 998
inBimester(day, bimester, offset) ==
    /\ localNoonInstant(day, offset) >= dateOnlyInstant(bimester.start)
    /\ localNoonInstant(day, offset) <= dateOnlyInstant(bimester.end)

ZeroTally == [present |-> 0, absent |-> 0, excused |-> 0, total |-> 0]

\* lines 1000-1004: the body of statuses.forEach.
tally(acc, status) ==
    [present |-> acc.present + (IF status = PRESENT THEN 1 ELSE 0),
     absent |-> acc.absent + (IF status # PRESENT /\ status = ABSENT THEN 1 ELSE 0),
     excused |-> acc.excused + (IF status \notin {PRESENT, ABSENT} /\ status = EXCUSED
                                THEN 1 ELSE 0),
     total |-> acc.total + (IF status # UNDEFINED THEN 1 ELSE 0)]

\* line 999: statuses.forEach
RECURSIVE tallyStatuses(_, _)
tallyStatuses(acc, statuses) ==
    IF statuses = <<>> THEN acc
    ELSE tallyStatuses(tally(acc, Head(statuses)), Tail(statuses))

\* lines 995-1007: Object.entries(attendanceRecord).forEach over the dates
\* still to visit.
RECURSIVE tallyDates(_, _, _, _, _)
tallyDates(acc, days, record, bimester, offset) ==
    IF days = {} THEN acc
    ELSE LET day == CHOOSE d \in days : \A e \in days : d <= e
             next == IF inBimester(day, bimester, offset)
                     THEN tallyStatuses(acc, record[day])
                     ELSE acc
         IN  tallyDates(next, days \ {day}, record, bimester, offset)

\* ((present + excused) / total) * 100 of lines 1009 and 1025 for every
\* total up to MaxTotal, computed once.
percentages ==
    [total \in 1..MaxTotal |->
        [counted \in 0..total |-> timesDouble(divideDouble(counted, total), 100)]]

\* The percentage with the excused slots left out of the numerator.
percentageOf_presentOnly(t) ==
    IF t.total > 0 THEN percentages[t.total][t.present] ELSE DoubleZero

\* lines 1009 and 1024-1026: the percentage of a tally; 0 when total is 0.
percentageOf(t) ==
    IF t.total > 0 THEN percentages[t.total][t.present + t.excused] ELSE DoubleZero

\* lines 987-1012
bimesterStats(attendanceRecord, bims, offset) ==
    [k \in DOMAIN bims |->
        LET t == tallyDates(ZeroTally, DOMAIN attendanceRecord, attendanceRecord,
                            bims[k], offset)
        IN  [id |-> bims[k].id, start |-> bims[k].start, end |-> bims[k].end,
             present |-> t.present, absent |-> t.absent, excused |-> t.excused,
             total |-> t.total, percentage |-> percentageOf(t)]]

\* lines 1017-1022: the reduce over bimesterStats, from the position k on.
RECURSIVE sumBuckets(_, _, _)
sumBuckets(acc, buckets, k) ==
    IF k > Len(buckets) THEN acc
    ELSE sumBuckets([present |-> acc.present + buckets[k].present,
                     absent |-> acc.absent + buckets[k].absent,
                     excused |-> acc.excused + buckets[k].excused,
                     total |-> acc.total + buckets[k].total], buckets, k + 1)

\* lines 1017-1026: annualStats with annualPercentage.
annualStats(buckets) ==
    LET sum == sumBuckets(ZeroTally, buckets, 1)
    IN  [present |-> sum.present, absent |-> sum.absent, excused |-> sum.excused,
         total |-> sum.total, percentage |-> percentageOf(sum)]

\* The double that holds the natural number n, 0 < n < 2^31.
fromNat(n) == [m |-> natBits(n) \o Zeros(53 - Len(natBits(n))),
               e |-> Len(natBits(n)) - 53]

\* a < b on non-negative doubles.
lessThan(a, b) ==
    IF b = DoubleZero THEN FALSE
    ELSE IF a = DoubleZero THEN TRUE
    ELSE IF a.e # b.e THEN a.e < b.e
    ELSE \E i \in 1..53 : a.m[i] < b.m[i] /\ \A j \in 1..(i - 1) : a.m[j] = b.m[j]

\* The flag raised at 75 and below.
isRisk_inclusive(annualPercentage) == ~lessThan(fromNat(75), annualPercentage)

\* line 1049
isRisk(annualPercentage) == lessThan(annualPercentage, fromNat(75))

\* line 922: attendanceRecord={attendance[selectedStudent.id] || {}}
detailRecord(att, student) == IF student \in DOMAIN att THEN att[student] ELSE EmptyMap

\* lines 950, 953-957: the modal's report text once student s is selected
\* while the selection was before: empty in a modal just mounted, and cleared
\* by the effect when the student changed.
reportAfterSelect(report, before, s) == IF before = s THEN report ELSE ""

\* line 921: setSelectedStudent(s) and the render that follows.  A modal
\* that was closed is mounted with its initial state (lines 950-951), and the
\* calls of an earlier modal cannot reach it.
selectStudent(s) ==
    /\ selectedStudent' = s
    /\ stats' = bimesterStats(detailRecord(attendance, s), bimesters, tz)
    /\ annual' = annualStats(stats')
    /\ aiReport' = reportAfterSelect(aiReport, selectedStudent, s)
    /\ reportLoading' = IF selectedStudent = "" THEN FALSE ELSE reportLoading
    /\ reports' = IF selectedStudent = "" THEN <<>> ELSE reports

\* line 783: the grid opens the detail modal of a student.
OpenDetail(s) ==
    /\ GridShown
    /\ s \in VisibleIds
    /\ selectStudent(s)
    /\ lastOp' = Op("openDetail")
    /\ UNCHANGED <<loadVars, classVars, configVars, viewVars, saveVars, schoolVars, deleteVars,
                   attendance, bimesters, pendingChanges, tz, nEdits>>

\* lines 459-463, with the modal's useMemo of line 987 recomputed by the
\* render that follows.
updateBimesterConfig(id, field, value) ==
    /\ Rendered
    /\ bimesters' = [k \in DOMAIN bimesters |->
                        IF bimesters[k].id = id
                        THEN (IF field = "start"
                              THEN [bimesters[k] EXCEPT !.start = value]
                              ELSE [bimesters[k] EXCEPT !.end = value])
                        ELSE bimesters[k]]
    /\ stats' = IF selectedStudent = "" THEN stats
                ELSE bimesterStats(detailRecord(attendance, selectedStudent),
                                   bimesters', tz)
    /\ annual' = annualStats(stats')
    /\ lastOp' = Op("updateBimesterConfig")
    /\ UNCHANGED <<loadVars, classVars, configVars, viewVars, saveVars, schoolVars, deleteVars,
                   selectedStudent, reportVars, attendance, pendingChanges, tz, nEdits>>

----------------------------------------------------------------------------
(* The application: loading, the class view's edits and the save action *)

Filters == {"ALL"} \cup EnrollmentStatus
ClassIds == {"c1", "c2"}
StudentIds == {"s1", "s2", "s3", "s4"}

Next ==
    \/ Mount
    \/ \E k \in 1..MaxCalls, raw \in CoreRawConfigs : LoadOk(k, raw)
    \/ \E k \in 1..MaxCalls : LoadFail(k)
    \/ \E c \in ClassIds : SelectClass(c)
    \/ \E f \in Filters : SetStatusFilter(f)
    \/ \E s \in StudentIds, d \in Dates, i \in LessonIdx : ToggleStatus(s, d, i)
    \/ \E d \in Dates, i \in LessonIdx, st \in AttendanceStatus :
          BulkStatusUpdate(d, i, st)
    \/ \E e \in ConfigEdits : handleUpdateLessonConfig(e)
    \/ FlushStart
    \/ WriteOk
    \/ WriteFail

Spec == Init /\ [][Next]_vars

\* handleToggleStatus as a handler of its own: called with and without a
\* forced status on the cells of the grid.
NextForced ==
    \/ Mount
    \/ \E k \in 1..MaxCalls, raw \in CoreRawConfigs : LoadOk(k, raw)
    \/ \E k \in 1..MaxCalls : LoadFail(k)
    \/ \E c \in ClassIds : SelectClass(c)
    \/ \E s \in StudentIds, d \in Dates, i \in LessonIdx : ToggleStatus(s, d, i)
    \/ \E s \in StudentIds, d \in Dates, i \in LessonIdx, st \in AttendanceStatus :
          ForcedToggle(s, d, i, st)

SpecForced == Init /\ [][NextForced]_vars

----------------------------------------------------------------------------
(* Properties of the attendance store and the pending-change queue *)

AllDates == {1, 2}

SameKey(a, b) ==
    a.studentId = b.studentId /\ a.date = b.date /\ a.lessonIndex = b.lessonIndex

\* The positions of the queue that hold an entry for a cell.
EntriesOf(queue, s, d, i) ==
    {k \in DOMAIN queue :
        queue[k].studentId = s /\ queue[k].date = d /\ queue[k].lessonIndex = i}

\* The queue entries of one student, in queue order.
QueueOfStudent(queue, s) == LET mine(c) == c.studentId = s IN SelectSeq(queue, mine)

RecordOf(att, s) == IF s \in DOMAIN att THEN att[s] ELSE EmptyMap

\* The ring of section 4.2.
Ring == (UNDEFINED :> PRESENT) @@ (PRESENT :> ABSENT) @@ (ABSENT :> EXCUSED)
        @@ (EXCUSED :> UNDEFINED)

\* C1: a manual toggle moves the cell one step along the ring UNDEFINED ->
\* PRESENT -> ABSENT -> EXCUSED -> UNDEFINED, and four more toggles from the
\* status it reaches lead back to that status.
C1_ToggleFollowsRing ==
    [][\A s \in StudentIds, d \in Dates, i \in LessonIdx :
          ToggleStatus(s, d, i) =>
             LET before == CellOf(attendance, s, d, i)
                 after == CellOf(attendance', s, d, i)
             IN  /\ after = Ring[before]
                 /\ cycleStatus(cycleStatus(cycleStatus(cycleStatus(after)))) = after
                 /\ cycleStatus(after) # after]_vars

\* A manual toggle took a cell from EXCUSED back to UNDEFINED.
C1_Witness ==
    /\ lastOp.op = "toggle"
    /\ \E k \in DOMAIN pendingChanges : pendingChanges[k].status = UNDEFINED

\* C2: a toggle forced to the status the cell already holds changes neither
\* the attendance store nor the pending-change queue.
C2_ForcedSameIsNoOp ==
    [][\A s \in StudentIds, d \in Dates, i \in LessonIdx, f \in AttendanceStatus :
          (ForcedToggle(s, d, i, f) /\ CellOf(attendance, s, d, i) = f) =>
             (attendance' = attendance /\ pendingChanges' = pendingChanges)]_vars

\* A toggle forced to the cell's own status ran while the queue held an entry
\* and some student had no record at all.
C2_Witness ==
    /\ lastOp.op = "forced"
    /\ lastOp.n = 1
    /\ pendingChanges # <<>>
    /\ "s2" \notin DOMAIN attendance

\* The subject or topic the maps hold for a lesson, '' when they hold none.
MetaAt(map, d, i) ==
    IF d \in DOMAIN map THEN (IF i \in DOMAIN map[d] THEN map[d][i] ELSE "") ELSE ""

\* C3: the queue never holds two entries for one (student, date, lesson), and
\* after an edit that changed a cell the one entry of that cell carries the
\* cell's new status and the subject and topic of the lesson at that moment.
C3_QueueDedup ==
    /\ [](\A j, k \in DOMAIN pendingChanges :
            SameKey(pendingChanges[j], pendingChanges[k]) => j = k)
    /\ [][lastOp'.op \in {"toggle", "bulk"} =>
            \A s \in StudentIds, d \in Dates, i \in LessonIdx :
               CellOf(attendance', s, d, i) # CellOf(attendance, s, d, i) =>
                  /\ Cardinality(EntriesOf(pendingChanges', s, d, i)) = 1
                  /\ \A k \in EntriesOf(pendingChanges', s, d, i) :
                        /\ pendingChanges'[k].status = CellOf(attendance', s, d, i)
                        /\ pendingChanges'[k].subject = MetaAt(lessonSubjects, d, i)
                        /\ pendingChanges'[k].topic = MetaAt(lessonTopics, d, i)]_vars

\* Two edits of the cell (s2, 1, 0) left one entry, with the later status.
C3_Witness ==
    /\ lastOp.op = "toggle"
    /\ nEdits = 2
    /\ Len(pendingChanges) = 1
    /\ pendingChanges[1].studentId = "s2"
    /\ pendingChanges[1].status = ABSENT
    /\ CellOf(attendance, "s2", 1, 0) = ABSENT

C5_EditsDuringFlushSurvive ==
    [][(flush.pc = "awaiting" /\ lastOp'.op = "flushOk") =>
          \A k \in DOMAIN pendingChanges :
              (\A j \in DOMAIN flush.calls : flush.calls[j] # pendingChanges[k])
                 => \E m \in DOMAIN pendingChanges' :
                       pendingChanges'[m] = pendingChanges[k]]_vars

\* C6: a non-empty queue becomes empty only in the step that completes a flush
\* all of whose writes succeeded, and that step empties the queue when it
\* holds what the flush wrote.
C6_ClearedOnlyOnFullSuccess ==
    [][/\ (pendingChanges # <<>> /\ pendingChanges' = <<>>) =>
              /\ flush.pc = "awaiting"
              /\ flush.ok + 1 = Len(flush.calls)
              /\ lastOp'.op = "flushOk"
       /\ (flush.pc = "awaiting" /\ lastOp'.op = "flushOk"
           /\ pendingChanges = flush.calls) => pendingChanges' = <<>>]_vars

\* A flush of two entries completed successfully.
C6_Witness ==
    /\ lastOp.op = "flushOk"
    /\ pendingChanges = <<>>
    /\ attendance # ServerAttendance
    /\ ~isSaving

\* The students a bulk update applies to, by section 4.3.
Eligible(s, d, i) ==
    \E k \in DOMAIN allStudents :
        /\ allStudents[k].id = s
        /\ HasClass(selectedClassId)
        /\ allStudents[k].classId = selectedClassId
        /\ statusFilter \in {"ALL", allStudents[k].status}
        /\ allStudents[k].status = ACTIVE
        /\ CellOf(attendance, s, d, i) = UNDEFINED

\* C7: a bulk update sets the cell of every visible ACTIVE student whose cell
\* is UNDEFINED to the target status and queues it; the records and the queue
\* entries of every other student are unchanged.
C7_BulkSkipRule ==
    [][\A d \in Dates, i \in LessonIdx, st \in AttendanceStatus :
          BulkStatusUpdate(d, i, st) =>
             \A s \in StudentIds :
                IF Eligible(s, d, i)
                THEN /\ CellOf(attendance', s, d, i) = st
                     /\ st # UNDEFINED =>
                           \E k \in EntriesOf(pendingChanges', s, d, i) :
                               pendingChanges'[k].status = st
                ELSE /\ RecordOf(attendance', s) = RecordOf(attendance, s)
                     /\ (s \in DOMAIN attendance') = (s \in DOMAIN attendance)
                     /\ QueueOfStudent(pendingChanges', s)
                           = QueueOfStudent(pendingChanges, s)]_vars

\* A bulk update marked s2 while s1 (already marked), s3 (not ACTIVE) and s4
\* (another class) kept their cells.
C7_Witness ==
    /\ lastOp.op = "bulk"
    /\ selectedClassId = "c1"
    /\ statusFilter = "ALL"
    /\ CellOf(attendance, "s2", 1, 0) = ABSENT
    /\ CellOf(attendance, "s1", 1, 0) = EXCUSED
    /\ CellOf(attendance, "s3", 1, 0) = UNDEFINED
    /\ Len(pendingChanges) = 1

----------------------------------------------------------------------------
(* Class deletion on top of loading and editing *)

NextDelete ==
    \/ Mount
    \/ \E k \in 1..MaxCalls, raw \in CoreRawConfigs : LoadOk(k, raw)
    \/ \E k \in 1..MaxCalls : LoadFail(k)
    \/ SettingsSave
    \/ \E c \in ClassIds : SelectClass(c)
    \/ \E s \in StudentIds, d \in Dates : ToggleStatus(s, d, 0)
    \/ \E c \in ClassIds : promptDeleteClass(c)
    \/ executeDeleteClass
    \/ \E k \in 1..MaxCalls : DeleteClassOk(k)
    \/ \E k \in 1..MaxCalls : DeleteClassFail(k)

SpecDelete == Init /\ [][NextDelete]_vars

\* C8: executing a class deletion removes the class, every student of the
\* class and the attendance of those students; the other classes, students
\* and attendance records stay as they are.
C8_CascadingDelete ==
    [][executeDeleteClass =>
          LET id == classToDelete
              gone == {allStudents[k].id :
                          k \in {j \in DOMAIN allStudents : allStudents[j].classId = id}}
              otherClass(c) == c.id # id
              otherStudent(s) == s.classId # id
          IN  /\ \A k \in DOMAIN allStudents' : allStudents'[k].classId # id
              /\ \A s \in gone : s \notin DOMAIN attendance'
              /\ \A k \in DOMAIN classes' : classes'[k].id # id
              /\ classes' = SelectSeq(classes, otherClass)
              /\ allStudents' = SelectSeq(allStudents, otherStudent)
              /\ DOMAIN attendance' = (DOMAIN attendance) \ gone
              /\ \A s \in DOMAIN attendance' : attendance'[s] = attendance[s]]_vars

\* Class c1 was deleted with attendance of s1 and s2 in the store; s4 of
\* class c2 kept its record.
C8_Witness ==
    /\ lastOp.op = "executeDeleteClass"
    /\ Len(classes) = 1
    /\ classes[1].id = "c2"
    /\ Len(allStudents) = 1
    /\ DOMAIN attendance = {"s4"}
    /\ \E k \in DOMAIN pendingChanges : pendingChanges[k].studentId = "s2"

----------------------------------------------------------------------------
(* Loading lesson configurations of every persisted shape *)

RawValues ==
    {Num(n) : n \in 0..MaxCount}
    \cup {Arr(a) : a \in {<<>>, <<0, 2>>, <<2, 0>>, <<1, 1>>}}
    \cup {Bad}

RawConfigs == UNION {[ds -> RawValues] : ds \in SUBSET AllDates}

NextConfig ==
    \/ Mount
    \/ \E k \in 1..MaxCalls, raw \in RawConfigs : LoadOk(k, raw)
    \/ \E k \in 1..MaxCalls : LoadFail(k)
    \/ SettingsSave

SpecConfig == Init /\ [][NextConfig]_vars

\* C9: after a load, each date's lesson configuration is 0..N-1 for a loaded
\* count N, the loaded array itself for an array, and absent for anything
\* else; the load raises no error.
C9_ConfigNormalized ==
    lastOp.op = "loadOk" =>
       /\ lastOp.alert = ""
       /\ ~loading
       /\ \A date \in AllDates :
             LET kind == IF date \in DOMAIN rawLoaded THEN rawLoaded[date].t ELSE "missing"
             IN  /\ kind = "number" =>
                       /\ date \in DOMAIN dailyLessonConfig
                       /\ Len(dailyLessonConfig[date]) = rawLoaded[date].n
                       /\ \A i \in 0..(rawLoaded[date].n - 1) :
                              dailyLessonConfig[date][i + 1] = i
                 /\ kind = "array" =>
                       /\ date \in DOMAIN dailyLessonConfig
                       /\ dailyLessonConfig[date] = rawLoaded[date].a
                 /\ kind \notin {"number", "array"} =>
                       date \notin DOMAIN dailyLessonConfig

\* A count of 3, and a malformed value, were loaded.
C9_Witness ==
    /\ lastOp.op = "loadOk"
    /\ rawLoaded = (1 :> Num(3)) @@ (2 :> Bad)
    /\ dailyLessonConfig = (1 :> <<0, 1, 2>>)

----------------------------------------------------------------------------
(* The detail modal's statistics over loaded records and edited bimesters *)

StatDays == {1, 2, 3}
TzOffsets == {-3, 0, 13}

StatRecords ==
    UNION {[ds -> {<<PRESENT, ABSENT>>, <<EXCUSED, UNDEFINED, PRESENT>>}] :
              ds \in SUBSET StatDays}

\* The state after a load that returned the record rec for student s1.
InitStats ==
    /\ loading = FALSE
    /\ isSettingsOpen = FALSE
    /\ isSaving = FALSE
    /\ classes = sortClasses(ServerClasses)
    /\ allStudents = ServerStudents
    /\ \E rec \in StatRecords : attendance = ("s1" :> rec)
    /\ bimesters = BIMESTERS
    /\ dailyLessonConfig = EmptyMap
    /\ lessonSubjects = ServerSubjects
    /\ lessonTopics = ServerTopics
    /\ pendingChanges = <<>>
    /\ viewMode = "CLASS"
    /\ selectedClassId = "c1"
    /\ classToDelete = ""
    /\ statusFilter = "ALL"
    /\ selectedStudent = ""
    /\ hasApiUrl = TRUE
    /\ loads = <<>>
    /\ flush = IdleFlush
    /\ deletes = <<>>
    /\ studentDeletes = <<>>
    /\ registeredSubjects = <<>>
    /\ holidays = <<>>
    /\ configSaves = <<>>
    /\ rejected = {}
    /\ rawLoaded = EmptyMap
    /\ stats = <<>>
    /\ annual = NoAnnual
    /\ aiReport = ""
    /\ reportLoading = FALSE
    /\ reports = <<>>
    /\ lastOp = Op("loadOk")
    /\ nEdits = 0
    /\ tz \in TzOffsets

NextStats ==
    \/ \E s \in StudentIds : OpenDetail(s)
    \/ \E id \in {1, 2}, field \in {"start", "end"}, value \in StatDays :
          updateBimesterConfig(id, field, value)

SpecStats == InitStats /\ [][NextStats]_vars

\* The slots of a record that hold status v on a calendar date from
\* bimester.start to bimester.end, both included.
SlotsIn(record, bimester, v) ==
    {<<d, j>> \in (DOMAIN record) \X (1..3) :
        /\ j \in DOMAIN record[d]
        /\ bimester.start <= d
        /\ d <= bimester.end
        /\ record[d][j] = v}

\* C10: each bimester's present, absent and excused are the numbers of
\* PRESENT, ABSENT and EXCUSED slots on the student's dates that belong to the
\* bimester, and total is their sum.
C10_BucketsCountSlots ==
    selectedStudent # "" =>
       \A k \in DOMAIN stats :
          LET record == RecordOf(attendance, selectedStudent)
          IN  /\ stats[k].present = Cardinality(SlotsIn(record, bimesters[k], PRESENT))
              /\ stats[k].absent = Cardinality(SlotsIn(record, bimesters[k], ABSENT))
              /\ stats[k].excused = Cardinality(SlotsIn(record, bimesters[k], EXCUSED))
              /\ stats[k].total = stats[k].present + stats[k].absent + stats[k].excused

\* The record of the student of the detail modal.
ShownRecord == RecordOf(attendance, selectedStudent)

\* Date d of the shown record is counted in bucket k: the bucket differs from
\* the bucket of the same record without d.  Every recorded date holds a
\* slot that is not UNDEFINED.
Counted(d, k) ==
    bimesterStats(Without(ShownRecord, {d}), bimesters, tz)[k].total # stats[k].total

\* C11: the slots of a date are counted in a bimester's bucket if and only if
\* start <= date <= end as calendar dates, start and end included, in every
\* timezone.
C11_InclusiveRange ==
    selectedStudent # "" =>
       \A k \in DOMAIN stats, d \in DOMAIN ShownRecord :
          Counted(d, k) <=> (bimesters[k].start <= d /\ d <= bimesters[k].end)

\* d * t = n in exact arithmetic, for a double d and naturals t > 0 and n.
ExactProduct(d, t, n) ==
    IF d = DoubleZero THEN n = 0
    ELSE LET p == stripLeadingZeros(productBits(d.m, t, 0, <<>>))
         IN  IF d.e <= 0 THEN p = natBits(n) \o Zeros(0 - d.e)
             ELSE p \o Zeros(d.e) = natBits(n)

\* a <= b for naturals given by their binary digits without leading zeros.
BitsLeq(a, b) ==
    \/ Len(a) < Len(b)
    \/ /\ Len(a) = Len(b)
       /\ \A i \in DOMAIN a : a[i] > b[i] => \E j \in 1..(i - 1) : a[j] < b[j]

\* The 51 binary digits of a natural number below 2^51.
Pad51(n) == Zeros(51 - Len(natBits(n))) \o natBits(n)

\* |d * t - n| <= n * 2^-51 in exact arithmetic, for a double d below 2^52 and
\* naturals t > 0 and 1 < n < 2^31: n * (2^51 - 1) <= d * t * 2^51 <=
\* n * (2^51 + 1), all three scaled by 2^(-d.e).
NearProduct(d, t, n) ==
    /\ d # DoubleZero
    /\ d.e <= 0
    /\ LET scaled == stripLeadingZeros(productBits(d.m, t, 0, <<>>)) \o Zeros(51)
           below == natBits(n - 1) \o [i \in 1..51 |-> 1 - Pad51(n - 1)[i]]
           above == natBits(n) \o Pad51(n)
       IN  /\ BitsLeq(below \o Zeros(0 - d.e), scaled)
           /\ BitsLeq(scaled, above \o Zeros(0 - d.e))

\* 0 <= d <= 100 for a double d.
WithinHundred(d) ==
    \/ d = DoubleZero
    \/ d.e < -46
    \/ d.e = -46 /\ BitsLeq(d.m, natBits(100) \o Zeros(46))

\* The buckets of the modal and the annual roll-up.
ShownTallies == {stats[k] : k \in DOMAIN stats} \cup {annual}

\* C12 as claimed: the percentage is 0 when total = 0 and otherwise
\* percentage * total = (present + excused) * 100, for every bucket and for
\* the annual roll-up.
C12_PercentageExact ==
    selectedStudent # "" =>
       \A b \in ShownTallies :
          IF b.total = 0 THEN b.percentage = DoubleZero
          ELSE ExactProduct(b.percentage, b.total, (b.present + b.excused) * 100)

\* C12 as amended: the percentage is 0 when total = 0 or present + excused = 0,
\* otherwise percentage * total differs from (present + excused) * 100 by at
\* most (present + excused) * 100 * 2^-51; it is always within 0..100.
C12_PercentageRounded ==
    selectedStudent # "" =>
       \A b \in ShownTallies :
          /\ WithinHundred(b.percentage)
          /\ IF b.total = 0 \/ b.present + b.excused = 0
             THEN b.percentage = DoubleZero
             ELSE NearProduct(b.percentage, b.total, (b.present + b.excused) * 100)

\* The modal shows a bucket of six slots, four of them present or excused:
\* 66.66666666666666, and the annual roll-up is not empty.
C12_Witness ==
    /\ selectedStudent = "s1"
    /\ \E k \in DOMAIN stats :
          /\ stats[k].total = 6
          /\ stats[k].present + stats[k].excused = 4
          /\ ~ExactProduct(stats[k].percentage, 6, 400)
    /\ annual.total > 0

\* The slots of the shown record that are not UNDEFINED, once for every
\* bucket that counts their date.
CountedSlots(statuses) ==
    {<<k, d, j>> \in (DOMAIN stats) \X (DOMAIN ShownRecord) \X (1..3) :
        /\ j \in DOMAIN ShownRecord[d]
        /\ ShownRecord[d][j] \in statuses
        /\ Counted(d, k)}

RECURSIVE SumOver(_, _, _)
SumOver(buckets, field, k) ==
    IF k > Len(buckets) THEN 0 ELSE buckets[k][field] + SumOver(buckets, field, k + 1)

\* The annual figures are the sums of the buckets' fields, the annual
\* percentage is computed from those sums, and a date is counted in the annual
\* figures once for every bucket that counts it.
AnnualIsSumOfBuckets ==
    selectedStudent # "" =>
       /\ annual.present = SumOver(stats, "present", 1)
       /\ annual.absent = SumOver(stats, "absent", 1)
       /\ annual.excused = SumOver(stats, "excused", 1)
       /\ annual.total = SumOver(stats, "total", 1)
       /\ annual.percentage =
             IF annual.total = 0 THEN DoubleZero
             ELSE timesDouble(divideDouble(annual.present + annual.excused,
                                           annual.total), 100)
       /\ annual.present = Cardinality(CountedSlots({PRESENT}))
       /\ annual.total = Cardinality(CountedSlots({PRESENT, ABSENT, EXCUSED}))

\* Date d lies in the range of bimester k, start and end included.
LiesIn(d, k) == bimesters[k].start <= d /\ d <= bimesters[k].end

\* The annual total of the shown record without date d.
AnnualTotalWithout(d) ==
    annualStats(bimesterStats(Without(ShownRecord, {d}), bimesters, tz)).total

\* The slots of a date that are not UNDEFINED.
RecordedSlots(d) == {j \in DOMAIN ShownRecord[d] : ShownRecord[d][j] # UNDEFINED}

\* C13: the annual present, absent, excused and total are the sums of the
\* buckets' fields, the annual percentage is computed from those sums, and a
\* date lying in two overlapping bimesters is counted once in each bucket and
\* twice in the annual figures.
C13_AnnualCountsOverlaps ==
    selectedStudent # "" =>
       /\ annual.present = SumOver(stats, "present", 1)
       /\ annual.absent = SumOver(stats, "absent", 1)
       /\ annual.excused = SumOver(stats, "excused", 1)
       /\ annual.total = SumOver(stats, "total", 1)
       /\ annual.percentage = percentageOf(annual)
       /\ \A d \in DOMAIN ShownRecord :
             (LiesIn(d, 1) /\ LiesIn(d, 2)) =>
                /\ Counted(d, 1)
                /\ Counted(d, 2)
                /\ annual.total =
                      AnnualTotalWithout(d) + 2 * Cardinality(RecordedSlots(d))

----------------------------------------------------------------------------
(* Toggles issued from one render *)

Keys == [studentId : StudentIds, date : Dates, lessonIndex : LessonIdx]

NextSnapshot ==
    \/ Mount
    \/ \E k \in 1..MaxCalls, raw \in CoreRawConfigs : LoadOk(k, raw)
    \/ \E k \in 1..MaxCalls : LoadFail(k)
    \/ \E c \in ClassIds : SelectClass(c)
    \/ \E s \in StudentIds, d \in Dates, i \in LessonIdx : ToggleStatus(s, d, i)
    \/ \E first \in Keys, second \in Keys : ToggleTwice(first, second)

SpecSnapshot == Init /\ [][NextSnapshot]_vars

\* The store and the queue after the toggle of first and then, on its
\* result, the toggle of second.
OneAfterTheOther(first, second) ==
    LET one == handleToggleStatus(Snapshot, Current, first.studentId,
                                  first.date, first.lessonIndex, "")
    IN  handleToggleStatus([Snapshot EXCEPT !.attendance = one.attendance], one,
                           second.studentId, second.date, second.lessonIndex, "")

\* C14: two toggles on different keys, also two lessons of one student and
\* date and also when both are issued from the same snapshot, leave the store
\* and the queue as the two toggles applied one after the other do.
C14_DifferentKeysNeverConflict ==
    [][\A first \in Keys, second \in Keys :
          (first # second /\ ToggleTwice(first, second)) =>
             /\ attendance' = OneAfterTheOther(first, second).attendance
             /\ pendingChanges' = OneAfterTheOther(first, second).pendingChanges]_vars

----------------------------------------------------------------------------
(* The save action *)

\* C15: a flush, whether it succeeds or fails, leaves every cell of the
\* attendance store as it is; nothing is rolled back.
C15_FlushLeavesStore ==
    [][(FlushStart \/ WriteOk \/ WriteFail) => attendance' = attendance]_vars

\* A flush failed after one of its writes was done, and the store still holds
\* the edited cell the queue describes.
C15_Witness ==
    /\ lastOp.op = "flushFail"
    /\ lastOp.n = 1
    /\ \E k \in DOMAIN pendingChanges :
          /\ pendingChanges[k].studentId = "s2"
          /\ pendingChanges[k].status = PRESENT
          /\ CellOf(attendance, "s2", pendingChanges[k].date,
                    pendingChanges[k].lessonIndex) = PRESENT

\* C16: a flush started on a queue of n > 0 entries initiates exactly n
\* writes, the k-th carrying the k-th entry's studentId, date, lessonIndex,
\* status, subject and topic, all of them before any outcome is awaited.
C16_OneWritePerEntry ==
    [][FlushStart =>
          /\ Len(pendingChanges) > 0
          /\ flush.pc = "idle"
          /\ flush'.pc = "awaiting"
          /\ flush'.ok = 0
          /\ Len(flush'.calls) = Len(pendingChanges)
          /\ \A k \in DOMAIN pendingChanges :
                /\ flush'.calls[k].studentId = pendingChanges[k].studentId
                /\ flush'.calls[k].date = pendingChanges[k].date
                /\ flush'.calls[k].lessonIndex = pendingChanges[k].lessonIndex
                /\ flush'.calls[k].status = pendingChanges[k].status
                /\ flush'.calls[k].subject = pendingChanges[k].subject
                /\ flush'.calls[k].topic = pendingChanges[k].topic]_vars

\* A flush was started on three entries, one of them with a subject.
C16_Witness ==
    /\ lastOp.op = "flushStart"
    /\ Len(flush.calls) = 3
    /\ flush.ok = 0
    /\ \E k \in DOMAIN flush.calls : flush.calls[k].subject = "Mat"
    /\ \E k \in DOMAIN flush.calls : flush.calls[k].subject = ""

NextFlush ==
    \/ Mount
    \/ \E k \in 1..MaxCalls, raw \in CoreRawConfigs : LoadOk(k, raw)
    \/ \E k \in 1..MaxCalls : LoadFail(k)
    \/ \E s \in StudentIds, d \in Dates, i \in LessonIdx : ToggleStatus(s, d, i)
    \/ handleSaveChanges
    \/ WriteOk
    \/ WriteFail

\* handleSaveChanges as a handler of its own, called on any queue.
SpecFlush == Init /\ [][NextFlush]_vars

\* C17: a flush invoked while the queue is empty issues no write and changes
\* neither the queue, the store nor the saving flag.
C17_EmptyFlushIsNoOp ==
    [][(handleSaveChanges /\ Len(pendingChanges) = 0) =>
          /\ flush' = IdleFlush
          /\ pendingChanges' = pendingChanges
          /\ attendance' = attendance
          /\ isSaving' = isSaving
          /\ ~isSaving']_vars

\* The handler ran on the queue a successful flush had emptied.
C17_Witness ==
    /\ lastOp.op = "flushEmpty"
    /\ nEdits > 0
    /\ pendingChanges = <<>>
    /\ flush = IdleFlush
    /\ ~isSaving

----------------------------------------------------------------------------
(* Toggles on cells as a load may leave them *)

\* What a slot of a loaded day may hold: a status, the empty string or some
\* other string.
LoadedCells == AttendanceStatus \cup {"", "X"}

LoadedDays ==
    {<<a>> : a \in LoadedCells} \cup {<<a, b>> : a \in LoadedCells, b \in LoadedCells}

\* The state after a load that returned the day record day for student s2.
InitCells ==
    /\ loading = FALSE
    /\ isSettingsOpen = FALSE
    /\ isSaving = FALSE
    /\ classes = sortClasses(ServerClasses)
    /\ allStudents = ServerStudents
    /\ \E day \in LoadedDays : attendance = ServerAttendance @@ ("s2" :> (1 :> day))
    /\ bimesters = BIMESTERS
    /\ dailyLessonConfig = (1 :> <<0, 1>>)
    /\ lessonSubjects = ServerSubjects
    /\ lessonTopics = ServerTopics
    /\ pendingChanges = <<>>
    /\ viewMode = "CLASS"
    /\ selectedClassId = "c1"
    /\ classToDelete = ""
    /\ statusFilter = "ALL"
    /\ selectedStudent = ""
    /\ hasApiUrl = TRUE
    /\ loads = <<>>
    /\ flush = IdleFlush
    /\ deletes = <<>>
    /\ studentDeletes = <<>>
    /\ registeredSubjects = <<>>
    /\ holidays = <<>>
    /\ configSaves = <<>>
    /\ rejected = {}
    /\ rawLoaded = (1 :> Num(2))
    /\ stats = <<>>
    /\ annual = NoAnnual
    /\ aiReport = ""
    /\ reportLoading = FALSE
    /\ reports = <<>>
    /\ lastOp = Op("loadOk")
    /\ nEdits = 0
    /\ tz = 0

NextCells ==
    \E s \in StudentIds, d \in Dates, i \in LessonIdx : ToggleStatus(s, d, i)

SpecCells == InitCells /\ [][NextCells]_vars

\* What the store holds in a slot: "" when the student, the date or the slot
\* is missing.
RawCell(att, s, d, i) ==
    IF s \in DOMAIN att /\ d \in DOMAIN att[s] THEN At(att[s][d], i) ELSE ""

\* C18: a manual toggle of a cell that holds none of the four statuses (it is
\* missing, empty or some other value) sets it to PRESENT.
C18_ToggleIsTotal ==
    [][\A s \in StudentIds, d \in Dates, i \in LessonIdx :
          (ToggleStatus(s, d, i) /\ RawCell(attendance, s, d, i) \notin AttendanceStatus)
             => RawCell(attendance', s, d, i) = PRESENT]_vars

----------------------------------------------------------------------------
(* Forced statuses and the metadata of queued changes *)

\* C19: a toggle with a forced status T, for each of the four statuses, sets
\* the cell to T whatever it held, and changes nothing exactly when the cell
\* already held T.
C19_ForcedSetsTarget ==
    [][\A s \in StudentIds, d \in Dates, i \in LessonIdx, T \in AttendanceStatus :
          ForcedToggle(s, d, i, T) =>
             /\ CellOf(attendance', s, d, i) = T
             /\ (attendance' = attendance /\ pendingChanges' = pendingChanges)
                   <=> CellOf(attendance, s, d, i) = T]_vars

\* A forced toggle took the EXCUSED cell of s1 to ABSENT, and another one set
\* a cell to UNDEFINED.
C19_Witness ==
    /\ lastOp.op = "forced"
    /\ lastOp.n = 0
    /\ RawCell(attendance, "s1", 1, 0) = ABSENT
    /\ \E k \in DOMAIN pendingChanges :
          /\ pendingChanges[k].status = UNDEFINED
          /\ RawCell(attendance, pendingChanges[k].studentId, pendingChanges[k].date,
                     pendingChanges[k].lessonIndex) = UNDEFINED

\* C20: the pending change a toggle creates carries the subject and the
\* topic the maps hold for its date and lesson at the moment of the edit, and
\* the empty string where a map holds none.
C20_EntryCarriesMeta ==
    [][\A s \in StudentIds, d \in Dates, i \in LessonIdx :
          (lastOp'.op \in {"toggle", "bulk"}
              /\ EntriesOf(pendingChanges', s, d, i) # {}
              /\ (EntriesOf(pendingChanges, s, d, i) = {}
                  \/ CellOf(attendance', s, d, i) # CellOf(attendance, s, d, i)))
             => \A k \in EntriesOf(pendingChanges', s, d, i) :
                   /\ pendingChanges'[k].subject = MetaAt(lessonSubjects, d, i)
                   /\ pendingChanges'[k].topic = MetaAt(lessonTopics, d, i)]_vars

\* After the subjects and topics of a date were edited, a toggle of lesson 1
\* queued a change with the new subject and topic.
C20_Witness ==
    /\ lastOp.op = "toggle"
    /\ \E k \in DOMAIN pendingChanges :
          /\ pendingChanges[k].lessonIndex = 1
          /\ pendingChanges[k].subject = "Por"
          /\ pendingChanges[k].topic = "Verbs"

----------------------------------------------------------------------------
(* Bulk updates over the visible list in any order *)

NextBulk ==
    \/ Mount
    \/ \E k \in 1..MaxCalls, raw \in CoreRawConfigs : LoadOk(k, raw)
    \/ \E k \in 1..MaxCalls : LoadFail(k)
    \/ \E f \in Filters : SetStatusFilter(f)
    \/ \E s \in StudentIds, d \in Dates, i \in LessonIdx : ToggleStatus(s, d, i)
    \/ \E d \in Dates, i \in LessonIdx, st \in AttendanceStatus :
          BulkStatusUpdate(d, i, st)

SpecBulk == Init /\ [][NextBulk]_vars

\* The rearrangements of positions 1..n.
Orders(n) == {p \in [1..n -> 1..n] : \A a, b \in 1..n : p[a] = p[b] => a = b}

\* C21: the result of a bulk update does not depend on the order of the
\* visible list: run over any permutation of it, the handler leaves the same
\* store and a queue with the same set of entries.
C21_BulkOrderIndependent ==
    [][\A d \in Dates, i \in LessonIdx, st \in AttendanceStatus :
          BulkStatusUpdate(d, i, st) =>
             \A p \in Orders(Len(Visible)) :
                LET permuted == [k \in DOMAIN Visible |-> Visible[p[k]]]
                    other == bulkForEach(Snapshot, Current, permuted, d, i, st)
                IN  /\ other.attendance = attendance'
                    /\ Range(other.pendingChanges) = Range(pendingChanges')]_vars

\* A bulk update over a list of three students set the cell of two of them.
C21_Witness ==
    /\ lastOp.op = "bulk"
    /\ Len(Visible) = 3
    /\ \E a, b \in DOMAIN pendingChanges :
          /\ pendingChanges[a].studentId = "s1"
          /\ pendingChanges[b].studentId = "s2"
          /\ pendingChanges[a].lessonIndex = pendingChanges[b].lessonIndex
          /\ pendingChanges[a].status = ABSENT
          /\ pendingChanges[b].status = ABSENT
          /\ CellOf(attendance, "s1", 1, pendingChanges[a].lessonIndex) = ABSENT
          /\ CellOf(attendance, "s2", 1, pendingChanges[a].lessonIndex) = ABSENT

----------------------------------------------------------------------------
(* The risk flag of the detail modal *)

\* C22: the modal flags the student at risk exactly when the annual
\* percentage is below 75: with no counted lesson (percentage 0) the student
\* is flagged, at exactly three counted lessons out of four the student is not.
C22_RiskBelow75 ==
    selectedStudent # "" =>
       LET counted == annual.present + annual.excused
       IN  /\ isRisk(annual.percentage)
                <=> (annual.total = 0 \/ 4 * counted < 3 * annual.total)
           /\ annual.total = 0 => isRisk(annual.percentage)
           /\ (annual.total > 0 /\ 4 * counted = 3 * annual.total)
                 => ~isRisk(annual.percentage)

\* The modal shows a student with three of four slots present or excused:
\* exactly 75, not at risk.
C22_Witness ==
    /\ selectedStudent = "s1"
    /\ annual.total = 4
    /\ annual.present + annual.excused = 3
    /\ annual.percentage = fromNat(75)
    /\ ~isRisk(annual.percentage)

----------------------------------------------------------------------------
(* The saving flag and the writes of a flush *)

\* C23: from the start of a flush until every write it issued has settled
\* the saving flag is true, also when one write fails while others are in
\* flight: the flag is set while the handler awaits, and it is reset only by
\* the settling of the last write still outstanding.
C23_SavingUntilAllSettled ==
    [][/\ flush'.pc = "awaiting" => isSaving'
       /\ (isSaving /\ ~isSaving') => flush.ok + 1 = Len(flush.calls)]_vars

----------------------------------------------------------------------------
(* Configuration saves *)

\* The lists the school configuration dialog submits (lines 492-493); a
\* holiday is identified by its date.
SubjectLists == {<<"Mat">>, <<"Mat", "Geo">>}
HolidayLists == {<<>>, <<2>>}

NextSchool ==
    \/ Mount
    \/ \E k \in 1..MaxCalls, raw \in CoreRawConfigs : LoadOk(k, raw)
    \/ \E k \in 1..MaxCalls : LoadFail(k)
    \/ \E s \in StudentIds, d \in Dates : ToggleStatus(s, d, 0)
    \/ \E e \in ConfigEdits : handleUpdateLessonConfig(e)
    \/ \E subjects \in SubjectLists : handleSaveSchoolSubjects(subjects)
    \/ \E newHolidays \in HolidayLists : handleSaveHolidays(newHolidays)
    \/ \E k \in 1..(MaxSaves + MaxEdits) : SaveConfigOk(k)
    \/ \E k \in 1..(MaxSaves + MaxEdits) : SaveConfigFail(k)

SpecSchool == Init /\ [][NextSchool]_vars

\* C24: every lesson-configuration edit updates the three local maps and a
\* save carrying the post-edit map is issued for each of the three, whatever
\* the outcome of the other saves: the call starts with the save of the
\* active indices, and it never ends with a save still unissued.
C24_ThreeSavesPerEdit ==
    [][/\ \A e \in ConfigEdits :
             handleUpdateLessonConfig(e) =>
                LET call == configSaves'[Len(configSaves')]
                IN  /\ dailyLessonConfig'[e.date] = e.activeIndices
                    /\ lessonSubjects'[e.date] = e.subjects
                    /\ lessonTopics'[e.date] = e.topics
                    /\ call.key = "dailyLessonCounts"
                    /\ call.value = dailyLessonConfig'
                    /\ Len(call.later) = 2
                    /\ call.later[1].key = "lessonSubjects"
                    /\ call.later[1].value = lessonSubjects'
                    /\ call.later[2].key = "lessonTopics"
                    /\ call.later[2].value = lessonTopics'
       /\ \A k \in DOMAIN configSaves :
             (Len(configSaves') < Len(configSaves)
              /\ (SaveConfigOk(k) \/ SaveConfigFail(k))
              /\ configSaves[k].handler = "handleUpdateLessonConfig")
                => configSaves[k].later = <<>>]_vars

\* C25: when a config save fails, in each of the three config handlers, the
\* failure is not propagated to the handler's caller, the edited config
\* values are kept and the saving flag is untouched.
C25_SaveFailuresAbsorbed ==
    [][\A k \in DOMAIN configSaves :
          SaveConfigFail(k) =>
             /\ rejected' = rejected
             /\ dailyLessonConfig' = dailyLessonConfig
             /\ lessonSubjects' = lessonSubjects
             /\ lessonTopics' = lessonTopics
             /\ registeredSubjects' = registeredSubjects
             /\ holidays' = holidays
             /\ isSaving' = isSaving]_vars

----------------------------------------------------------------------------
(* A class deletion the gateway refused *)

\* C26 as claimed: a failed class deletion undoes nothing locally and starts
\* a full reload, and when a load succeeds the class list, the student list
\* and the attendance store are what the gateway returned.
C26_ReloadRestoresReturned ==
    [][\A k \in 1..(MaxCalls + 1) :
          /\ DeleteClassFail(k) =>
                /\ classes' = classes
                /\ allStudents' = allStudents
                /\ attendance' = attendance
                /\ Len(loads') = Len(loads) + 1
                /\ loading'
          /\ \A raw \in CoreRawConfigs :
                LoadOk(k, raw) =>
                   /\ classes' = ServerClasses
                   /\ allStudents' = ServerStudents
                   /\ attendance' = ServerAttendance]_vars

\* C26 as amended: the same, with the class list holding the returned
\* classes in the order of their names.
C26_ReloadRestoresSorted ==
    [][\A k \in 1..(MaxCalls + 1) :
          /\ DeleteClassFail(k) =>
                /\ classes' = classes
                /\ allStudents' = allStudents
                /\ attendance' = attendance
                /\ Len(loads') = Len(loads) + 1
                /\ loading'
          /\ \A raw \in CoreRawConfigs :
                LoadOk(k, raw) =>
                   /\ Len(classes') = Len(ServerClasses)
                   /\ Range(classes') = Range(ServerClasses)
                   /\ \A a, b \in DOMAIN classes' :
                         a < b => classes'[a].name <= classes'[b].name
                   /\ allStudents' = ServerStudents
                   /\ attendance' = ServerAttendance]_vars

\* The reload a failed deletion of the selected class c1 started has
\* succeeded: both classes and the records of c1's students are back, and the
\* view is still the dashboard the deletion switched to.
C26_Witness ==
    /\ lastOp.op = "loadOk"
    /\ viewMode = "DASHBOARD"
    /\ selectedClassId = ""
    /\ Len(classes) = 2
    /\ Len(allStudents) = 4
    /\ "s1" \in DOMAIN attendance
    /\ deletes = <<>>

----------------------------------------------------------------------------
(* Student deletion *)

NextStudent ==
    \/ Mount
    \/ \E k \in 1..MaxCalls, raw \in CoreRawConfigs : LoadOk(k, raw)
    \/ \E k \in 1..MaxCalls : LoadFail(k)
    \/ ShowStudents
    \/ \E s \in StudentIds, d \in Dates : ToggleStatus(s, d, 0)
    \/ \E s \in StudentIds : handleDeleteStudent(s)
    \/ \E k \in 1..MaxDeletes : DeleteStudentOk(k)
    \/ \E k \in 1..MaxDeletes : DeleteStudentFail(k)

SpecStudent == Init /\ [][NextStudent]_vars

\* C27: when the gateway call of a student deletion succeeds the student is
\* in neither the student list nor the store, and when it fails the student
\* list and the store are set back to what they were when the deletion was
\* initiated.
C27_DeleteStudentOutcome ==
    [][\A k \in DOMAIN studentDeletes :
          /\ DeleteStudentOk(k) =>
                /\ \A j \in DOMAIN allStudents' :
                      allStudents'[j].id # studentDeletes[k].id
                /\ studentDeletes[k].id \notin DOMAIN attendance'
          /\ DeleteStudentFail(k) =>
                /\ allStudents' = studentDeletes[k].previousStudents
                /\ attendance' = studentDeletes[k].previousAttendance]_vars

----------------------------------------------------------------------------
(* Loads: no endpoint, failures, and the loading flag *)

\* Every caller of loadData: the effect of the first render, the settings
\* dialog and the catch block of a class deletion.
NextReload ==
    \/ Mount
    \/ \E k \in 1..(MaxCalls + 1), raw \in CoreRawConfigs : LoadOk(k, raw)
    \/ \E k \in 1..(MaxCalls + 1) : LoadFail(k)
    \/ SettingsSave
    \/ \E c \in ClassIds : promptDeleteClass(c)
    \/ executeDeleteClass
    \/ \E k \in 1..MaxCalls : DeleteClassOk(k)
    \/ \E k \in 1..MaxCalls : DeleteClassFail(k)

SpecReload == Init /\ [][NextReload]_vars

\* C28: a load attempted with no persistence endpoint configured makes no
\* gateway call, opens the settings prompt, ends with loading false and
\* leaves classes, students, attendance, bimesters and config maps unchanged.
C28_NoEndpointNoCall ==
    [][((Mount \/ \E k \in 1..(MaxCalls + 1) : DeleteClassFail(k)) /\ ~hasApiUrl) =>
          /\ loads' = loads
          /\ isSettingsOpen'
          /\ ~loading'
          /\ classes' = classes
          /\ allStudents' = allStudents
          /\ attendance' = attendance
          /\ bimesters' = bimesters
          /\ dailyLessonConfig' = dailyLessonConfig
          /\ lessonSubjects' = lessonSubjects
          /\ lessonTopics' = lessonTopics
          /\ registeredSubjects' = registeredSubjects
          /\ holidays' = holidays]_vars

\* The first load ran with no endpoint: the prompt is open, nothing is
\* awaited and nothing was loaded.
C28_Witness ==
    /\ lastOp.op = "mount"
    /\ ~hasApiUrl
    /\ isSettingsOpen
    /\ ~loading
    /\ loads = <<>>
    /\ classes = <<>>

\* C29: after any load whose gateway call fails, the first one or a reload,
\* the class list, the student list and the attendance store are empty, the
\* settings prompt is open and loading is false.
C29_FailedLoadLeavesEmpty ==
    [][\A k \in 1..(MaxCalls + 1) :
          LoadFail(k) =>
             /\ classes' = <<>>
             /\ allStudents' = <<>>
             /\ attendance' = EmptyMap
             /\ isSettingsOpen'
             /\ ~loading']_vars

\* C30: loading is true from the start of a gateway load until that load
\* settles, so the main view is never rendered while a load is in progress.
C30_LoadingWhileLoadInFlight == loads # <<>> => loading

----------------------------------------------------------------------------
(* Record lengths under toggles *)

\* The record a toggle is to create where the student has none for the date.
CreatedRecord(config, date, lessonIndex, status) ==
    LET activeLessons == IF date \in DOMAIN config THEN config[date] ELSE <<0>>
        length == MaxOf(Range(activeLessons) \cup {lessonIndex}) + 1
    IN  [j \in 1..length |-> IF j = lessonIndex + 1 THEN status ELSE UNDEFINED]

\* The toggles of a step: the one of ToggleStatus, the two of ToggleTwice.
ToggledIn(key) ==
    \/ ToggleStatus(key.studentId, key.date, key.lessonIndex)
    \/ \E other \in Keys : ToggleTwice(key, other) \/ ToggleTwice(other, key)

\* C31: over toggles, an existing record of a student and date never gets
\* shorter; after a toggle of lesson i the record has at least i + 1 slots;
\* a record a toggle creates has max(largest active lesson, i) + 1 slots, all
\* UNDEFINED but the toggled one.
C31_RecordsOnlyGrow ==
    [][/\ \A s \in StudentIds, d \in Dates :
             (lastOp'.op \in {"toggle", "toggleTwice"} /\ d \in DOMAIN RecordOf(attendance, s)) =>
                 /\ d \in DOMAIN RecordOf(attendance', s)
                 /\ Len(RecordOf(attendance', s)[d]) >= Len(RecordOf(attendance, s)[d])
       /\ \A key \in Keys :
             ToggledIn(key) =>
                 /\ key.date \in DOMAIN RecordOf(attendance', key.studentId)
                 /\ Len(RecordOf(attendance', key.studentId)[key.date])
                       >= key.lessonIndex + 1
       /\ \A key \in Keys :
             (/\ ToggleStatus(key.studentId, key.date, key.lessonIndex)
              /\ key.date \notin DOMAIN RecordOf(attendance, key.studentId)) =>
                 RecordOf(attendance', key.studentId)[key.date] =
                    CreatedRecord(dailyLessonConfig, key.date, key.lessonIndex, PRESENT)]_vars

----------------------------------------------------------------------------
(* After a failed flush *)

\* C32: a failed flush issues no write and leaves none outstanding; a flush
\* begins only in a step of the save action; and the save action invoked
\* after a failed flush issues one write for each entry of the queue, which
\* still holds the key of every write of the failed flush, whatever the
\* number of those writes that had succeeded.
C32_RetryOnlyByUser ==
    [][/\ WriteFail =>
             /\ flush' = IdleFlush
             /\ pendingChanges' = pendingChanges
             /\ \A k \in DOMAIN flush.calls :
                   \E j \in DOMAIN pendingChanges' :
                      /\ pendingChanges'[j].studentId = flush.calls[k].studentId
                      /\ pendingChanges'[j].date = flush.calls[k].date
                      /\ pendingChanges'[j].lessonIndex = flush.calls[k].lessonIndex
       /\ (flush.pc = "idle" /\ flush'.pc = "awaiting") => handleSaveChanges
       /\ (handleSaveChanges /\ lastOp.op = "flushFail") =>
             /\ flush'.pc = "awaiting"
             /\ flush'.ok = 0
             /\ Len(flush'.calls) = Len(pendingChanges)
             /\ \A k \in DOMAIN pendingChanges :
                   /\ flush'.calls[k].studentId = pendingChanges[k].studentId
                   /\ flush'.calls[k].date = pendingChanges[k].date
                   /\ flush'.calls[k].lessonIndex = pendingChanges[k].lessonIndex
                   /\ flush'.calls[k].status = pendingChanges[k].status]_vars

\* The save action was invoked again after a flush of two writes had failed
\* with one of them done, and it issued two writes.
C32_Witness ==
    /\ lastOp.op = "flushStart"
    /\ lastOp.n = 2
    /\ Len(flush.calls) = 2
    /\ flush.ok = 0
    /\ isSaving

----------------------------------------------------------------------------
(* What a toggle leaves alone *)

\* The entries of a queue that are not of the key, in the queue's order.
OtherEntries(queue, key) ==
    LET other(c) == ~SameKey(c, key) IN SelectSeq(queue, other)

\* From the store att and the queue to att2 and queue2, nothing changed but
\* the key's slot, the padding of the key's record and the key's queue entry.
OnlySlotChanged(att, queue, att2, queue2, key) ==
    /\ \A s \in (DOMAIN att \cup DOMAIN att2) \ {key.studentId} :
          RecordOf(att2, s) = RecordOf(att, s)
    /\ \A d \in DOMAIN RecordOf(att, key.studentId) \ {key.date} :
          /\ d \in DOMAIN RecordOf(att2, key.studentId)
          /\ RecordOf(att2, key.studentId)[d] = RecordOf(att, key.studentId)[d]
    /\ DOMAIN RecordOf(att2, key.studentId) =
          DOMAIN RecordOf(att, key.studentId) \cup {key.date}
    /\ LET before == IF key.date \in DOMAIN RecordOf(att, key.studentId)
                     THEN RecordOf(att, key.studentId)[key.date] ELSE <<>>
           after == RecordOf(att2, key.studentId)[key.date]
       IN  \A j \in DOMAIN after \ {key.lessonIndex + 1} :
              after[j] = IF j \in DOMAIN before THEN before[j] ELSE UNDEFINED
    /\ OtherEntries(queue2, key) = OtherEntries(queue, key)

\* C33: a toggle of (student, date, lesson i) changes slot i of the student's
\* record of the date and nothing else of the store, apart from UNDEFINED
\* padding, and leaves the queue entries of the other keys as they are; of two
\* toggles of one step this is said of the second, on the result of the first.
C33_ToggleChangesOneSlot ==
    [][/\ \A key \in Keys :
             ToggleStatus(key.studentId, key.date, key.lessonIndex) =>
                OnlySlotChanged(attendance, pendingChanges,
                                attendance', pendingChanges', key)
       /\ \A first \in Keys, second \in Keys :
             ToggleTwice(first, second) =>
                LET one == handleToggleStatus(Snapshot, Current, first.studentId,
                                              first.date, first.lessonIndex, "")
                IN  OnlySlotChanged(one.attendance, one.pendingChanges,
                                    attendance', pendingChanges', second)]_vars

----------------------------------------------------------------------------
(* The queue and the student list *)

\* C34: every entry of the pending-change queue is of a student of the
\* student list.
C34_QueueOfListedStudents ==
    \A k \in DOMAIN pendingChanges :
       \E j \in DOMAIN allStudents : allStudents[j].id = pendingChanges[k].studentId

----------------------------------------------------------------------------
(* The queue and the store *)

\* line 517: the sidebar's button that opens the settings modal.
OpenSettings ==
    /\ Rendered
    /\ ~isSettingsOpen
    /\ isSettingsOpen' = TRUE
    /\ lastOp' = Op("openSettings")
    /\ UNCHANGED <<loading, hasApiUrl, loads, rawLoaded, classVars, configVars,
                   viewVars, saveVars, schoolVars, deleteVars, detailVars,
                   attendance, bimesters, pendingChanges, tz, nEdits>>

\* Edits in the grid and reloads from the settings modal.
NextRefresh ==
    \/ Mount
    \/ \E k \in 1..MaxCalls, raw \in CoreRawConfigs : LoadOk(k, raw)
    \/ \E k \in 1..MaxCalls : LoadFail(k)
    \/ OpenSettings
    \/ SettingsSave
    \/ \E s \in StudentIds, d \in Dates, i \in LessonIdx : ToggleStatus(s, d, i)

SpecRefresh == Init /\ [][NextRefresh]_vars

\* C35: the status of every entry of the pending-change queue is the status
\* the attendance store holds for the entry's student, date and lesson.
C35_QueueMatchesStore ==
    \A k \in DOMAIN pendingChanges :
       pendingChanges[k].status =
          CellOf(attendance, pendingChanges[k].studentId, pendingChanges[k].date,
                 pendingChanges[k].lessonIndex)

----------------------------------------------------------------------------
(* Adding students, and what a rollback restores *)

\* The students the student manager submits (line 792): new ids, the status
\* given or left out.
NewStudents ==
    {[id |-> "s5", name |-> 4, classId |-> "c1", status |-> st] : st \in {"", INACTIVE}}

\* lines 314-319.  The call of api.saveStudent changes no state when it
\* settles; the handler does not catch its rejection.
handleAddStudent(student) ==
    /\ Rendered
    /\ viewMode = "STUDENTS"
    /\ \A k \in DOMAIN allStudents : allStudents[k].id # student.id
    /\ LET s == [student EXCEPT !.status = OrElse(student.status, ACTIVE)]
       IN  allStudents' = Append(allStudents, s)
    /\ lastOp' = Op("addStudent")
    /\ UNCHANGED <<loadVars, classes, configVars, viewVars, saveVars, schoolVars,
                   deleteVars, detailVars, attendance, bimesters, pendingChanges,
                   tz, nEdits>>

\* Student deletions with edits and additions while they are in flight.
NextRollback ==
    \/ Mount
    \/ \E k \in 1..MaxCalls, raw \in CoreRawConfigs : LoadOk(k, raw)
    \/ \E k \in 1..MaxCalls : LoadFail(k)
    \/ ShowStudents
    \/ SelectClass("c1")
    \/ \E d \in Dates : ToggleStatus("s2", d, 0)
    \/ \E student \in NewStudents : handleAddStudent(student)
    \/ handleDeleteStudent("s1")
    \/ \E k \in 1..MaxDeletes : DeleteStudentOk(k)
    \/ \E k \in 1..MaxDeletes : DeleteStudentFail(k)

SpecRollback == Init /\ [][NextRollback]_vars

\* C36: the rollback of a failed student deletion keeps every student that
\* was in the student list before it, those added while the delete call was
\* in flight included, and keeps the attendance record of every student but
\* the deleted one as it was before the rollback, edits made in that
\* interval included.
C36_RollbackDiscardsNothing ==
    [][\A k \in 1..MaxDeletes :
          DeleteStudentFail(k) =>
             /\ \A j \in DOMAIN allStudents :
                   \E i \in DOMAIN allStudents' : allStudents'[i] = allStudents[j]
             /\ \A s \in DOMAIN attendance \ {studentDeletes[k].id} :
                   RecordOf(attendance', s) = attendance[s]]_vars

----------------------------------------------------------------------------
(* The report of the detail modal, lines 949-985 and 1028-1041 *)

\* lines 971-974: the position of the modal's student in studentsList
\* (zero-based), -1 where it is not there.
currentIndex ==
    IF \E k \in DOMAIN Visible : Visible[k].id = selectedStudent
    THEN (CHOOSE k \in DOMAIN Visible :
             /\ Visible[k].id = selectedStudent
             /\ \A j \in 1..(k - 1) : Visible[j].id # selectedStudent) - 1
    ELSE -1

\* The steps a student of the modal can be switched in.
ModalShown == Rendered /\ selectedStudent # ""

\* line 783 where no modal is open: an open modal covers the grid.
OpenModal(s) ==
    /\ selectedStudent = ""
    /\ OpenDetail(s)

\* lines 976, 979-981
handlePrev ==
    /\ ModalShown
    /\ currentIndex > 0
    /\ selectStudent(At(Visible, currentIndex - 1).id)
    /\ lastOp' = Op("prev")
    /\ UNCHANGED <<loadVars, classVars, configVars, viewVars, saveVars, schoolVars,
                   deleteVars, attendance, bimesters, pendingChanges, tz, nEdits>>

\* lines 977, 983-985
handleNext ==
    /\ ModalShown
    /\ currentIndex < Len(Visible) - 1
    /\ selectStudent(At(Visible, currentIndex + 1).id)
    /\ lastOp' = Op("next")
    /\ UNCHANGED <<loadVars, classVars, configVars, viewVars, saveVars, schoolVars,
                   deleteVars, attendance, bimesters, pendingChanges, tz, nEdits>>

\* line 925: onClose.  The modal is unmounted; what its outstanding calls set
\* when they settle is the state of a component that is gone.
CloseDetail ==
    /\ ModalShown
    /\ selectedStudent' = ""
    /\ stats' = <<>>
    /\ annual' = NoAnnual
    /\ aiReport' = ""
    /\ reportLoading' = FALSE
    /\ reports' = <<>>
    /\ lastOp' = Op("closeDetail")
    /\ UNCHANGED <<loadVars, classVars, configVars, viewVars, saveVars, schoolVars,
                   deleteVars, attendance, bimesters, pendingChanges, tz, nEdits>>

\* lines 1028-1038 up to the await; the button is disabled while loading
\* (line 1201).
handleGenerateReport ==
    /\ ModalShown
    /\ ~reportLoading
    /\ reportLoading' = TRUE
    /\ reports' = Append(reports, [student |-> selectedStudent])
    /\ lastOp' = Op("generateReport")
    /\ UNCHANGED <<loadVars, classVars, configVars, viewVars, saveVars, schoolVars,
                   deleteVars, selectedStudent, stats, annual, aiReport,
                   attendance, bimesters, pendingChanges, tz, nEdits>>

\* lines 1038-1040: generateStudentReport resolved with the report of the
\* student it was called for.
ReportArrives(k) ==
    /\ k \in DOMAIN reports
    /\ aiReport' = reports[k].student
    /\ reportLoading' = FALSE
    /\ reports' = RemoveAt(reports, k)
    /\ lastOp' = Op("reportArrives")
    /\ UNCHANGED <<loadVars, classVars, configVars, viewVars, saveVars, schoolVars,
                   deleteVars, selectedStudent, stats, annual,
                   attendance, bimesters, pendingChanges, tz, nEdits>>

\* line 1038: generateStudentReport rejected; lines 1039-1040 do not run and
\* nothing catches the rejection.
ReportRejects(k) ==
    /\ k \in DOMAIN reports
    /\ reports' = RemoveAt(reports, k)
    /\ lastOp' = Op("reportRejects")
    /\ UNCHANGED <<loadVars, classVars, configVars, viewVars, saveVars, schoolVars,
                   deleteVars, selectedStudent, stats, annual, aiReport, reportLoading,
                   attendance, bimesters, pendingChanges, tz, nEdits>>

\* The calls one modal can have outstanding: one, its button being disabled
\* from the call on.
MaxReports == 1

NextReport ==
    \/ Mount
    \/ \E k \in 1..MaxCalls, raw \in CoreRawConfigs : LoadOk(k, raw)
    \/ \E k \in 1..MaxCalls : LoadFail(k)
    \/ \E c \in ClassIds : SelectClass(c)
    \/ \E s \in StudentIds : OpenModal(s)
    \/ handlePrev
    \/ handleNext
    \/ CloseDetail
    \/ handleGenerateReport
    \/ \E k \in 1..MaxReports : ReportArrives(k)
    \/ \E k \in 1..MaxReports : ReportRejects(k)

SpecReport == Init /\ [][NextReport]_vars

\* The report text the modal displays: lines 1184-1190.
reportShown == IF ~reportLoading /\ aiReport # "" THEN aiReport ELSE ""

\* C37: the report the detail modal shows is the report of the student the
\* modal is open on.
C37_ReportOfSelectedStudent ==
    (selectedStudent # "" /\ reportShown # "") => reportShown = selectedStudent

====
